---- MODULE Spec2Model ----
(***************************************************************************)
(* Model of the llmagent package of elastic-package: the capability        *)
(* sandbox of the package tools (tools.go), the Agent loop (agent.go) and  *)
(* the interactive documentation session (docagent).                       *)
(*                                                                         *)
(* Text is modelled as a sequence of tokens (a token is a phrase, a path   *)
(* segment or a number rendered as text); fmt.Sprintf is concatenation of  *)
(* token sequences and len() of a text is the length of its sequence.      *)
(* A path string is modelled by its "/"-separated segments.                *)
(***************************************************************************)
EXTENDS Integers, Sequences, FiniteSets, TLC

(***************************************************************************)
(* Bounds of the model                                                     *)
(***************************************************************************)
\* most tool calls in one provider response
MaxCalls == 2
\* most tool calls a freely choosing provider issues in one ExecuteTask run
MaxRunCalls == 2
\* most "not finished, no tool calls" responses of a freely choosing provider
MaxNudges == 1
\* most ExecuteTask invocations on one Agent
MaxRuns == 2

\* entries of a transcript handed to the classifier on its own
MaxEntries == 6

\* tokens of a document handed to the preserved-section validator
MaxDocLen == 5

(***************************************************************************)
(* Paths: filepath.Join / Clean / Rel / Dir on "/"-separated segments      *)
(***************************************************************************)
\* segment names that begin with the two characters ".."
DotDotNames == {"..", "..cfg"}

PackageRoot == <<"pkg">>

ReadmeRel == <<"_dev", "build", "docs", "README.md">>

Last(s) == s[Len(s)]

Front(s) == SubSeq(s, 1, Len(s) - 1)

\* filepath.Clean of a rooted path: "" and "." segments vanish, ".." removes
\* the segment before it and is dropped at the filesystem root
RECURSIVE CleanFrom(_, _)
CleanFrom(acc, rest) ==
    IF rest = <<>> THEN acc
    ELSE LET s == Head(rest) IN
         IF s \in {"", "."} THEN CleanFrom(acc, Tail(rest))
         ELSE IF s = ".." THEN
              CleanFrom(IF acc = <<>> THEN acc ELSE Front(acc), Tail(rest))
         ELSE CleanFrom(Append(acc, s), Tail(rest))

Clean(abs) == CleanFrom(<<>>, abs)

\* filepath.Join(root, elems...): joins with "/" and cleans the result
Join(root, rel) == Clean(root \o rel)

\* filepath.Dir of a clean rooted path
Dir(abs) == IF abs = <<>> THEN <<>> ELSE Front(abs)

RECURSIVE CommonLen(_, _)
CommonLen(a, b) ==
    IF a = <<>> \/ b = <<>> \/ Head(a) # Head(b) THEN 0
    ELSE 1 + CommonLen(Tail(a), Tail(b))

\* filepath.Rel(base, targ) for two clean rooted paths (never an error then):
\* one ".." for each segment of base below the common prefix, then the rest of
\* targ; "." when the two are the same
Rel(base, targ) ==
    LET k  == CommonLen(base, targ)
        up == [i \in 1..(Len(base) - k) |-> ".."]
        r  == up \o SubSeq(targ, k + 1, Len(targ))
    IN IF r = <<>> THEN <<".">> ELSE r

\* strings.HasPrefix(relPath, ".."): relPath starts with its first segment
HasDotDotPrefix(rel) == Head(rel) \in DotDotNames

\* strings.HasPrefix(args.Path, "docs/") on the raw argument
HasDocsPrefix(raw) == Len(raw) >= 2 /\ raw[1] = "docs"

(***************************************************************************)
(* Texts produced by the tools and the loop                                *)
(***************************************************************************)
\* strconv of a small number, for %d
NumText == <<"1", "2", "3", "4", "5", "6", "7", "8">>

FmtInt(n) == IF n = 0 THEN "0" ELSE IF n <= Len(NumText) THEN NumText[n] ELSE "many"

NoText == <<>>

(***************************************************************************)
(* The filesystem: every location is absent, a directory or a regular file *)
(***************************************************************************)
Absent == [kind |-> "none", data |-> NoText]

DirNode == [kind |-> "dir", data |-> NoText]

FileNode(content) == [kind |-> "file", data |-> content]

\* a regular file whose mode lets the process neither read nor write it:
\* os.Stat succeeds, os.ReadFile and os.WriteFile fail, os.Remove succeeds
LockedNode(content) == [kind |-> "locked", data |-> content]

IsLocked(fsys, abs) == fsys[abs].kind = "locked"

\* names in the byte order os.ReadDir returns them in
NameOrder == <<"..cfg", "README.md", "_dev", "build", "docs", "etc", "manifest.yml", "notes.md">>

Prefixes(abs) == {SubSeq(abs, 1, n) : n \in 0..Len(abs)}

IsDir(fsys, abs) == fsys[abs].kind = "dir"

IsFile(fsys, abs) == fsys[abs].kind = "file"

Exists(fsys, abs) == fsys[abs].kind # "none"

\* os.MkdirAll(dir): fails when a component of dir is a regular file (nothing
\* is created then, every component above the file exists already); otherwise
\* every missing component becomes a directory
MkdirAllFails(fsys, dir) == \E q \in Prefixes(dir) : IsFile(fsys, q) \/ IsLocked(fsys, q)

MkdirAll(fsys, dir) ==
    [q \in DOMAIN fsys |-> IF q \in Prefixes(dir) THEN DirNode ELSE fsys[q]]

\* a file name of more than 255 bytes, which open(2) refuses with ENAMETOOLONG
LongName == "a-name-of-256-bytes"

\* os.WriteFile(path, data): full replace, fails on a name the system refuses,
\* on a directory or when the parent is not a directory
WriteFileFails(fsys, abs) ==
    \/ Last(abs) = LongName
    \/ IsDir(fsys, abs)
    \/ IsLocked(fsys, abs)
    \/ ~IsDir(fsys, Dir(abs))

\* the data appended to what the file holds
WriteFileAppend(fsys, abs, content) ==
    [fsys EXCEPT ![abs] = FileNode((IF fsys[abs].kind = "file" THEN fsys[abs].data ELSE <<>>)
                                   \o content)]

WriteFile(fsys, abs, content) == [fsys EXCEPT ![abs] = FileNode(content)]

\* os.Remove(path): removes a file or an empty directory
HasChildren(fsys, abs) ==
    \E q \in DOMAIN fsys : Len(q) = Len(abs) + 1 /\ Dir(q) = abs /\ Exists(fsys, q)

RemoveFails(fsys, abs) ==
    ~Exists(fsys, abs) \/ (IsDir(fsys, abs) /\ HasChildren(fsys, abs))

Remove(fsys, abs) == [fsys EXCEPT ![abs] = Absent]

\* os.ReadDir(path): the names of the entries of a directory, sorted
ReadDir(fsys, abs) ==
    SelectSeq(NameOrder, LAMBDA n : Append(abs, n) \in DOMAIN fsys /\ Exists(fsys, Append(abs, n)))

(***************************************************************************)
(* Tool results                                                            *)
(***************************************************************************)
\* the (*ToolResult, error) pair of a handler; goErr = NoText is a nil error
Outcome(content, error, goErr) == [Content |-> content, Error |-> error, goErr |-> goErr]

ResultContent(content) == Outcome(content, NoText, NoText)

ResultError(error) == Outcome(NoText, error, NoText)

GoError(err) == Outcome(NoText, NoText, err)

\* what a handler did: its outcome, the filesystem it leaves and the os.*
\* calls it made
Effect(out, fsys, ops) == [out |-> out, fs |-> fsys, ops |-> ops]

Op(name, abs) == [op |-> name, path |-> abs]

ParseErrorText == <<"failed to parse arguments:", "invalid JSON">>

DeniedRootText == <<"access denied", ": path outside package root">>

DeniedDocsText == <<"access denied", ": invalid path">>

DeniedWriteText == <<"access denied", ": path outside allowed directory">>

\* only the parent directory itself recognised as an escape
EscapesExactParent(allowed, abs) == Rel(Clean(allowed), Clean(abs)) = <<"..">>

\* the sandbox test shared by the three handlers: the cleaned joined path,
\* made relative to the allowed root, starts with ".."
Escapes(allowed, abs) == HasDotDotPrefix(Rel(Clean(allowed), Clean(abs)))

\* one line of a listing
RECURSIVE ListingLines(_, _, _)
ListingLines(fsys, abs, names) ==
    IF names = <<>> THEN <<>>
    ELSE LET n == Head(names)
             rest == ListingLines(fsys, abs, Tail(names))
         IN IF n = "docs" THEN rest
            ELSE IF IsDir(fsys, Append(abs, n))
                 THEN <<n, "/ (directory)">> \o rest
                 ELSE <<n, "(file,", FmtInt(Len(fsys[Append(abs, n)].data)), "bytes)">> \o rest

listDirectoryHandler(packageRoot, args, fsys) ==
    IF ~args.valid THEN Effect(ResultError(ParseErrorText), fsys, <<>>)
    ELSE LET fullPath == Join(packageRoot, args.path) IN
         IF Escapes(packageRoot, fullPath)
         THEN Effect(ResultError(DeniedRootText), fsys, <<>>)
         ELSE IF ~IsDir(fsys, fullPath)
              THEN Effect(ResultError(<<"failed to read directory:", "open">>),
                          fsys, <<Op("ReadDir", fullPath)>>)
              ELSE Effect(ResultContent(<<"Contents of">> \o args.path \o <<":">>
                                        \o ListingLines(fsys, fullPath, ReadDir(fsys, fullPath))),
                          fsys, <<Op("ReadDir", fullPath)>>)

\* a failed os.ReadFile passed on as the handler's Go error
readFileHandlerRaising(packageRoot, args, fsys) ==
    IF ~args.valid THEN Effect(ResultError(ParseErrorText), fsys, <<>>)
    ELSE IF HasDocsPrefix(args.path)
    THEN Effect(ResultError(DeniedDocsText), fsys, <<>>)
    ELSE LET fullPath == Join(packageRoot, args.path) IN
         IF Escapes(packageRoot, fullPath)
         THEN Effect(ResultError(DeniedRootText), fsys, <<>>)
         ELSE IF ~IsFile(fsys, fullPath)
              THEN Effect(GoError(<<"failed to read file:", "open">>),
                          fsys, <<Op("ReadFile", fullPath)>>)
              ELSE Effect(ResultContent(fsys[fullPath].data),
                          fsys, <<Op("ReadFile", fullPath)>>)

readFileHandler(packageRoot, args, fsys) ==
    IF ~args.valid THEN Effect(ResultError(ParseErrorText), fsys, <<>>)
    ELSE IF HasDocsPrefix(args.path)
    THEN Effect(ResultError(DeniedDocsText), fsys, <<>>)
    ELSE LET fullPath == Join(packageRoot, args.path) IN
         IF Escapes(packageRoot, fullPath)
         THEN Effect(ResultError(DeniedRootText), fsys, <<>>)
         ELSE IF ~IsFile(fsys, fullPath)
              THEN Effect(ResultError(<<"failed to read file:", "open">>),
                          fsys, <<Op("ReadFile", fullPath)>>)
              ELSE Effect(ResultContent(fsys[fullPath].data),
                          fsys, <<Op("ReadFile", fullPath)>>)

\* the write root taken to be the read root
AllowedDirIsRoot(packageRoot) == Join(packageRoot, <<>>)

\* the directory write_file is confined to
AllowedDir(packageRoot) == Join(packageRoot, <<"_dev", "build", "docs">>)

writeFileHandler(packageRoot, args, fsys) ==
    IF ~args.valid THEN Effect(ResultError(ParseErrorText), fsys, <<>>)
    ELSE LET fullPath   == Join(packageRoot, args.path)
             allowedDir == AllowedDir(packageRoot)
             dir        == Dir(fullPath)
             made       == MkdirAll(fsys, dir)
         IN
         IF Escapes(allowedDir, fullPath)
         THEN Effect(ResultError(DeniedWriteText), fsys, <<>>)
         ELSE IF MkdirAllFails(fsys, dir)
         THEN Effect(ResultError(<<"failed to create directory:", "mkdir">>),
                     fsys, <<Op("MkdirAll", dir)>>)
         ELSE IF WriteFileFails(made, fullPath)
         THEN Effect(ResultError(<<"failed to write file:", "open">>),
                     made, <<Op("MkdirAll", dir), Op("WriteFile", fullPath)>>)
         ELSE Effect(ResultContent(<<"Successfully wrote", FmtInt(Len(args.content)), "bytes to">>
                                   \o args.path),
                     WriteFile(made, fullPath, args.content),
                     <<Op("MkdirAll", dir), Op("WriteFile", fullPath)>>)

(***************************************************************************)
(* Tools, tool calls and provider responses                                *)
(***************************************************************************)
Tool(name, handler) == [Name |-> name, Handler |-> handler]

\* PackageTools(packageRoot): the three tools bound to their handlers
PackageTools ==
    <<Tool("list_directory", "listDirectoryHandler"),
      Tool("read_file", "readFileHandler"),
      Tool("write_file", "writeFileHandler")>>

\* the tools the Agent tests register: a handler that returns content, one
\* that returns a ToolResult with Error set, one that returns a Go error
TestTools ==
    <<Tool("test_tool", "contentHandler"),
      Tool("denied_tool", "resultErrorHandler"),
      Tool("broken_tool", "goErrorHandler")>>

\* the decoded form of the JSON argument string of a call
Args(path, content) == [valid |-> TRUE, path |-> path, content |-> content]

BadArgs == [valid |-> FALSE, path |-> <<>>, content |-> NoText]

ToolCall(name, args) == [Name |-> name, Arguments |-> args]

\* tool.Handler(ctx, arguments)
RunHandler(handler, args, fsys) ==
    CASE handler = "listDirectoryHandler" -> listDirectoryHandler(PackageRoot, args, fsys)
      [] handler = "readFileHandler"      -> readFileHandler(PackageRoot, args, fsys)
      [] handler = "writeFileHandler"     -> writeFileHandler(PackageRoot, args, fsys)
      [] handler = "contentHandler"       -> Effect(ResultContent(<<"test">>), fsys, <<>>)
      [] handler = "resultErrorHandler"   -> Effect(ResultError(<<"Permission denied">>), fsys, <<>>)
      [] OTHER                            -> Effect(GoError(<<"file access denied">>), fsys, <<>>)

\* Agent.executeTool: the first registered tool of that name handles the call
RECURSIVE executeTool(_, _, _)
executeTool(registry, toolCall, fsys) ==
    IF registry = <<>>
    THEN Effect(GoError(<<"tool not found:", toolCall.Name>>), fsys, <<>>)
    ELSE IF Head(registry).Name = toolCall.Name
         THEN RunHandler(Head(registry).Handler, toolCall.Arguments, fsys)
         ELSE executeTool(Tail(registry), toolCall, fsys)

Entry(type, content) == [Type |-> type, Content |-> content]

\* a handler Go error reported with the wording of a tool-level error
ToolResultEntryOneWording(toolCall, out) ==
    IF out.goErr # NoText
    THEN Entry("tool_result", <<"Tool", toolCall.Name, "error:">> \o out.goErr)
    ELSE IF out.Error # NoText
         THEN Entry("tool_result", <<"Tool", toolCall.Name, "error:">> \o out.Error)
         ELSE Entry("tool_result", <<"Tool", toolCall.Name, "result:">> \o out.Content)

\* the tool_result entry ExecuteTask appends for one executed call
ToolResultEntry(toolCall, out) ==
    IF out.goErr # NoText
    THEN Entry("tool_result", <<"Tool", toolCall.Name, "failed:">> \o out.goErr)
    ELSE IF out.Error # NoText
         THEN Entry("tool_result", <<"Tool", toolCall.Name, "error:">> \o out.Error)
         ELSE Entry("tool_result", <<"Tool", toolCall.Name, "result:">> \o out.Content)

NudgeText ==
    <<"Please complete the task or use the available tools to gather the information you need. If the task is complete, please indicate that you are finished.">>

ExhaustedText == <<"Task did not complete within maximum iterations">>

\* Agent.buildPrompt: one labelled block for each entry, in order
RECURSIVE buildPrompt(_)
buildPrompt(conv) ==
    IF conv = <<>> THEN <<>>
    ELSE LET e == Head(conv)
             label == CASE e.Type = "user" -> <<"Human: ">>
                        [] e.Type = "assistant" -> <<"Assistant: ">>
                        [] e.Type = "tool_result" -> <<"Tool Result: ">>
                        [] OTHER -> <<>>
         IN (IF label = <<>> THEN <<>> ELSE label \o e.Content \o <<"\n\n">>)
            \o buildPrompt(Tail(conv))

LLMResponse(content, toolCalls, finished) ==
    [Content |-> content, ToolCalls |-> toolCalls, Finished |-> finished]

\* sequences of at most n elements of S
SeqsUpTo(S, n) == UNION {[1..k -> S] : k \in 0..n}

\* provider names of the repository and whether strings.ToLower(name)
\* contains "gemini"
ProviderNames == {"Gemini", "Amazon Bedrock"}

ToLowerName(name) == IF name = "Gemini" THEN "gemini" ELSE "amazon bedrock"

ContainsGemini(lower) == lower = "gemini"

MaxIterationsDefault == 15

MaxIterationsGemini == 20

\* the larger budget given to every provider
MaxIterationsForAll(name) == MaxIterationsGemini

MaxIterationsFor(name) ==
    IF ContainsGemini(ToLowerName(name)) THEN MaxIterationsGemini ELSE MaxIterationsDefault

(***************************************************************************)
(* State                                                                   *)
(***************************************************************************)
VARIABLES
    fs,             \* the filesystem: location -> node
    provider,       \* the LLMProvider the Agent was built with
    tools,          \* Agent.tools
    apc,            \* where ExecuteTask stands
    iter,           \* the loop counter i of ExecuteTask
    conversation,   \* the local transcript of ExecuteTask
    response,       \* the response being handled
    responses,      \* the responses GenerateResponse returned in this run, in order
    pending,        \* the tool calls of the response not yet executed
    result,         \* the *TaskResult returned (NoResult: nil)
    err,            \* the error returned (NoText: nil)
    prompt,         \* the prompt argument of the running ExecuteTask
    providerCalls,  \* GenerateResponse calls made by the running ExecuteTask
    fullPrompt,     \* the prompt built for the latest provider call
    toolLog,        \* the calls handed to executeTool, their outcomes and os.* calls, in order
    runCalls,       \* tool calls issued by the provider in this run
    nudges,         \* unfinished responses without tool calls in this run
    runs,           \* ExecuteTask invocations so far
    spc,            \* where UpdateDocumentation stands ("none": the Agent is used on its own)
    originalReadmeContent,  \* DocumentationAgent.originalReadmeContent
    nextPrompt,     \* the prompt variable of runInteractiveMode
    readmeUpdated,  \* the readmeUpdated local of runInteractiveMode
    exitVia,        \* the choice or event UpdateDocumentation returned on
    sessionErr,     \* the error UpdateDocumentation returned (NoText: nil)
    startReadme,    \* what was at the README path when the session started
    firstResult,    \* the result of the first attempt of runNonInteractiveMode
    fnCall,         \* the function applied on its own and its arguments
    fnRet,          \* what that function returned
    printed,        \* the preserved-section warnings printed to the user so far
    cancelled,      \* the context handed to ExecuteTask is done
    anim            \* an AnimatedStatus, its caller and its animate goroutine

agentVars == <<provider, tools, apc, iter, conversation, response, responses, pending, result,
               err, prompt, providerCalls, fullPrompt, toolLog, runCalls, nudges, runs>>

ioVars == <<printed, cancelled, anim>>

auxVars == <<firstResult, fnCall, fnRet, ioVars>>

sessVars == <<spc, originalReadmeContent, nextPrompt, readmeUpdated, exitVia, sessionErr,
              startReadme, auxVars>>

vars == <<fs, agentVars, sessVars>>

NoResult == [Success |-> FALSE, FinalContent |-> NoText, Conversation |-> <<>>, nil |-> TRUE]

TaskResult(success, finalContent, conv) ==
    [Success |-> success, FinalContent |-> finalContent, Conversation |-> conv, nil |-> FALSE]

NoResponse == LLMResponse(NoText, <<>>, FALSE)

NoCall == [fn |-> "none"]

NoRet == [returned |-> FALSE]

\* no AnimatedStatus constructed
NoAnimation == [constructed |-> FALSE]

InitAux ==
    /\ anim = NoAnimation
    /\ firstResult = NoResult
    /\ fnCall = NoCall
    /\ fnRet = NoRet
    /\ printed = {}
    /\ cancelled = FALSE

(***************************************************************************)
(* Agent.ExecuteTask, one action for each step of the loop                 *)
(***************************************************************************)
\* entry of ExecuteTask: the transcript starts with the prompt, the budget is
\* chosen from the provider name
StartExecuteTask(p) ==
    /\ apc \in {"idle", "done"}
    /\ runs < MaxRuns
    /\ runs' = runs + 1
    /\ prompt' = p
    /\ conversation' = <<Entry("user", p)>>
    /\ iter' = 0
    /\ apc' = "loop"
    /\ response' = NoResponse
    /\ responses' = <<>>
    /\ pending' = <<>>
    /\ result' = NoResult
    /\ err' = NoText
    /\ providerCalls' = 0
    /\ fullPrompt' = NoText
    /\ toolLog' = <<>>
    /\ runCalls' = 0
    /\ nudges' = 0
    /\ UNCHANGED <<fs, provider, tools>>

maxIterations == MaxIterationsFor(provider.name)

\* loop condition i <= maxIterations
CallProviderInclusive ==
    /\ UNCHANGED sessVars
    /\ apc = "loop"
    /\ iter <= MaxIterationsFor(provider.name)
    /\ apc' = "provider"
    /\ providerCalls' = providerCalls + 1
    /\ fullPrompt' = buildPrompt(conversation)
    /\ UNCHANGED <<fs, provider, tools, iter, conversation, response, responses, pending,
                   result, err, prompt, toolLog, runCalls, nudges, runs>>

\* loop head with budget left: build the prompt and call the provider
CallProvider ==
    /\ UNCHANGED sessVars
    /\ apc = "loop"
    /\ iter < maxIterations
    /\ apc' = "provider"
    /\ providerCalls' = providerCalls + 1
    /\ fullPrompt' = buildPrompt(conversation)
    /\ UNCHANGED <<fs, provider, tools, iter, conversation, response, responses, pending,
                   result, err, prompt, toolLog, runCalls, nudges, runs>>

\* what the provider may answer: a scripted provider answers its script every
\* time, a free one anything of its repertoire within the bounds
MayAnswer(repertoire, r) ==
    IF provider.scripted THEN r = provider.script
    ELSE /\ r \in repertoire
         /\ runCalls + Len(r.ToolCalls) <= MaxRunCalls
         /\ (r.ToolCalls = <<>> /\ ~r.Finished) => nudges < MaxNudges

\* the finished flag trusted before the tool calls are looked at
DecideFinishedFirst(r) ==
    IF r.Finished THEN "success"
    ELSE IF Len(r.ToolCalls) > 0 THEN "tools"
    ELSE "nudge"

\* the branch ExecuteTask takes on a response: tool calls come first, then
\* the finished flag
Decide(r) ==
    IF Len(r.ToolCalls) > 0 THEN "tools"
    ELSE IF r.Finished THEN "success"
    ELSE "nudge"

\* success returned with the transcript as it was before the last response
SuccessResultStale(r, conv) == TaskResult(TRUE, r.Content, Front(conv))

\* the TaskResult of the terminal success branch
SuccessResult(r, conv) == TaskResult(TRUE, r.Content, conv)

\* no provider looks at the context
HonoursContextNever(p) == FALSE

\* the providers of the repository send their request with
\* http.NewRequestWithContext, so a call made with a context that is done, or
\* in flight when it becomes done, returns an error; a scripted provider
\* answers whatever the context
HonoursContext(p) == ~p.scripted

\* an empty content left out of the transcript
AppendAssistantSkipEmpty(conv, r) ==
    IF r.Content = NoText THEN conv ELSE Append(conv, Entry("assistant", r.Content))

\* the assistant entry appended for a response, with its raw content
AppendAssistant(conv, r) == Append(conv, Entry("assistant", r.Content))

\* the nudge appended twice
AppendNudgeTwice(conv) == Append(Append(conv, Entry("user", NudgeText)), Entry("user", NudgeText))

\* the user entry appended when a response neither calls a tool nor finishes
AppendNudge(conv) == Append(conv, Entry("user", NudgeText))

\* GenerateResponse returned a response: record it, then either start on its
\* tool calls, return success, or nudge and go round again
ProviderResponds(repertoire) ==
    /\ UNCHANGED sessVars
    /\ apc = "provider"
    /\ ~(cancelled /\ HonoursContext(provider))
    /\ \E r \in repertoire \cup {provider.script} :
        /\ MayAnswer(repertoire, r)
        /\ response' = r
        /\ responses' = Append(responses, r)
        /\ runCalls' = runCalls + Len(r.ToolCalls)
        /\ LET conv == AppendAssistant(conversation, r)
               branch == Decide(r)
           IN
           CASE branch = "tools" ->
                /\ conversation' = conv
                /\ pending' = r.ToolCalls
                /\ apc' = "tools"
                /\ UNCHANGED <<iter, result, nudges>>
             [] branch = "success" ->
                /\ conversation' = conv
                /\ result' = SuccessResult(r, conv)
                /\ apc' = "done"
                /\ UNCHANGED <<iter, pending, nudges>>
             [] OTHER ->
                /\ conversation' = AppendNudge(conv)
                /\ iter' = iter + 1
                /\ nudges' = nudges + 1
                /\ apc' = "loop"
                /\ UNCHANGED <<pending, result>>
    /\ UNCHANGED <<fs, provider, tools, err, prompt, providerCalls, fullPrompt, toolLog,
                   runs>>

ProviderErrorText == <<"provider unavailable">>

CancelledErrorText == <<"context canceled">>

\* a provider error swallowed, the loop going round again
ProviderFailsRetry ==
    /\ UNCHANGED sessVars
    /\ apc = "provider"
    /\ ~provider.scripted
    /\ apc' = "loop"
    /\ iter' = iter + 1
    /\ UNCHANGED <<fs, provider, tools, conversation, response, responses, pending, result,
                   err, prompt, providerCalls, fullPrompt, toolLog, runCalls, nudges,
                   runs>>

\* GenerateResponse returned an error (a scripted provider always answers):
\* ExecuteTask returns the error wrapped
ProviderFails ==
    /\ UNCHANGED sessVars
    /\ apc = "provider"
    /\ ~provider.scripted
    /\ err' = <<"failed to get LLM response:">>
                  \o (IF cancelled THEN CancelledErrorText ELSE ProviderErrorText)
    /\ result' = NoResult
    /\ apc' = "done"
    /\ UNCHANGED <<fs, provider, tools, iter, conversation, response, responses, pending,
                   prompt, providerCalls, fullPrompt, toolLog, runCalls, nudges, runs>>

\* the calls taken back to front
RangeNextBackwards(calls) == [toolCall |-> Last(calls), rest |-> Front(calls)]

\* the range loop over response.ToolCalls takes the calls front to back
RangeNext(calls) == [toolCall |-> Head(calls), rest |-> Tail(calls)]

\* one pass of the range loop over response.ToolCalls: execute the call and
\* append its tool_result entry; after the last call the iteration ends
ExecuteToolCall ==
    /\ UNCHANGED sessVars
    /\ apc = "tools"
    /\ pending # <<>>
    /\ LET next == RangeNext(pending)
           eff == executeTool(tools, next.toolCall, fs)
       IN /\ fs' = eff.fs
          /\ toolLog' = Append(toolLog, [call |-> next.toolCall, out |-> eff.out, ops |-> eff.ops])
          /\ conversation' = Append(conversation, ToolResultEntry(next.toolCall, eff.out))
          /\ pending' = next.rest
          /\ IF next.rest = <<>>
             THEN apc' = "loop" /\ iter' = iter + 1
             ELSE apc' = "tools" /\ iter' = iter
    /\ UNCHANGED <<provider, tools, response, responses, result, err, prompt, providerCalls,
                   fullPrompt, runCalls, nudges, runs>>

\* loop head with the budget used up
BudgetExhausted ==
    /\ UNCHANGED sessVars
    /\ apc = "loop"
    /\ iter >= maxIterations
    /\ result' = TaskResult(FALSE, ExhaustedText, conversation)
    /\ apc' = "done"
    /\ UNCHANGED <<fs, provider, tools, iter, conversation, response, responses, pending,
                   err, prompt, providerCalls, fullPrompt, toolLog, runCalls, nudges,
                   runs>>

(***************************************************************************)
(* The Agent on its own, with the tools of the Agent tests                 *)
(***************************************************************************)
TestCalls == {ToolCall(n, Args(<<>>, NoText)) :
                n \in {"test_tool", "denied_tool", "broken_tool", "missing_tool"}}

AgentContents == {<<"Done">>, NoText}

AgentRepertoire ==
    {LLMResponse(c, tc, f) : c \in AgentContents, tc \in SeqsUpTo(TestCalls, MaxCalls),
                             f \in BOOLEAN}

Prompts == {<<"Hello, how are you?">>, NoText}

\* locations of the filesystem model
Locations ==
    UNION {Prefixes(PackageRoot \o rel) :
             rel \in {ReadmeRel \o <<"notes.md">>,
                      <<"_dev", "build", "docs", "notes.md">>,
                      <<"_dev", "build", "docs", "..cfg">>,
                      <<"_dev", "build", "notes.md">>,
                      <<"docs", "README.md">>,
                      <<"..cfg">>, <<"manifest.yml">>, <<"notes.md">>}}
    \cup {<<"etc">>, <<"etc", "notes.md">>, <<"..cfg">>}

\* a package with a manifest and a generated docs directory
BaseFs ==
    [q \in Locations |->
        IF q \in {<<>>, PackageRoot, <<"etc">>, PackageRoot \o <<"docs">>} THEN DirNode
        ELSE IF q = <<"etc", "notes.md">> THEN FileNode(<<"secret">>)
        ELSE IF q = PackageRoot \o <<"manifest.yml">> THEN FileNode(<<"name: pkg">>)
        ELSE IF q = PackageRoot \o <<"docs", "README.md">> THEN FileNode(<<"# Generated">>)
        ELSE Absent]

InitAgentCommon ==
    /\ apc = "idle"
    /\ iter = 0
    /\ conversation = <<>>
    /\ response = NoResponse
    /\ responses = <<>>
    /\ pending = <<>>
    /\ result = NoResult
    /\ err = NoText
    /\ prompt = NoText
    /\ providerCalls = 0
    /\ fullPrompt = NoText
    /\ toolLog = <<>>
    /\ runCalls = 0
    /\ nudges = 0
    /\ runs = 0

NoOriginal == [present |-> FALSE, content |-> NoText]

\* no documentation session: the Agent is driven directly
InitNoSession ==
    /\ spc = "none"
    /\ originalReadmeContent = NoOriginal
    /\ nextPrompt = NoText
    /\ readmeUpdated = FALSE
    /\ exitVia = "none"
    /\ sessionErr = NoText
    /\ startReadme = Absent
    /\ InitAux

\* a provider: its Name() and whether it answers one fixed response every
\* time or chooses freely (and may then also return an error)
Provider(name, scripted, script) == [name |-> name, scripted |-> scripted, script |-> script]

InitAgent ==
    /\ fs = BaseFs
    /\ tools = TestTools
    /\ \E n \in ProviderNames, sc \in BOOLEAN, r \in AgentRepertoire :
          provider = Provider(n, sc, IF sc THEN r ELSE NoResponse)
    /\ InitAgentCommon
    /\ InitNoSession

CallExecuteTask == \E p \in Prompts : StartExecuteTask(p) /\ UNCHANGED sessVars

NextAgent ==
    \/ CallExecuteTask
    \/ CallProvider
    \/ ProviderResponds(AgentRepertoire)
    \/ ProviderFails
    \/ ExecuteToolCall
    \/ BudgetExhausted

SpecAgent == InitAgent /\ [][NextAgent]_vars

\* the steps of a running ExecuteTask; the code runs on whenever it can, and a
\* provider call returns (with a response or with an error)
RunStep ==
    \/ CallProvider
    \/ ProviderResponds(AgentRepertoire)
    \/ ProviderFails
    \/ ExecuteToolCall
    \/ BudgetExhausted

SpecAgentLive == SpecAgent /\ WF_vars(RunStep)

(***************************************************************************)
(* Properties of the Agent loop                                            *)
(***************************************************************************)
Running == apc \in {"loop", "provider", "tools"}

Returned == apc = "done"

\* the iteration budget the documentation gives each provider
BudgetOf(name) == IF name = "Gemini" THEN 20 ELSE 15

RECURSIVE Flatten(_)
Flatten(seqs) == IF seqs = <<>> THEN <<>> ELSE Head(seqs) \o Flatten(Tail(seqs))

CallsOf(rs) == Flatten([k \in 1..Len(rs) |-> rs[k].ToolCalls])

EntriesOfType(conv, t) == SelectSeq(conv, LAMBDA e : e.Type = t)

IsFinal(r) == r.Finished /\ r.ToolCalls = <<>>

IsStall(r) == ~r.Finished /\ r.ToolCalls = <<>>

\* C4: an ExecuteTask invocation never makes more provider calls than its
\* budget (20 for a provider named like Gemini, 15 otherwise), and once
\* started it returns, whatever the provider answers
C4_TerminatesWithinBudget ==
    /\ [](providerCalls <= BudgetOf(provider.name))
    /\ [](Running => <>Returned)

\* a Gemini run that used its whole budget answering with tool calls
C4_Witness ==
    /\ Returned
    /\ provider.name = "Gemini"
    /\ providerCalls = 20
    /\ Len(toolLog) >= 20

\* C5: a provider that always answers finished=false without tool calls makes
\* ExecuteTask return, after exactly maxIterations provider calls, a nil error
\* and a TaskResult with Success=false whose FinalContent holds the exhaustion
\* phrase
C5_StallingProviderExhaustsBudget ==
    (Returned /\ provider.scripted /\ IsStall(provider.script))
        => /\ providerCalls = BudgetOf(provider.name)
           /\ err = NoText
           /\ ~result.nil
           /\ ~result.Success
           /\ \E k \in 1..Len(result.FinalContent) :
                 result.FinalContent[k] = "Task did not complete within maximum iterations"

C5_Witness ==
    /\ Returned /\ provider.scripted /\ IsStall(provider.script)
    /\ provider.name = "Amazon Bedrock"
    /\ providerCalls = 15
    /\ ~result.Success

\* C6: ExecuteTask returns Success=true exactly when some response of the run
\* is finished without tool calls; that response is the last one received,
\* no provider call follows it, FinalContent is its content and the returned
\* conversation ends with its assistant entry
C6_SuccessIffFinalResponse ==
    Returned =>
        LET finals == {k \in 1..Len(responses) : IsFinal(responses[k])} IN
        /\ (~result.nil /\ result.Success) <=> (finals # {})
        /\ finals # {} =>
              /\ finals = {Len(responses)}
              /\ providerCalls = Len(responses)
              /\ err = NoText
              /\ result.FinalContent = responses[Len(responses)].Content
              /\ result.Conversation # <<>>
              /\ Last(result.Conversation) = Entry("assistant", responses[Len(responses)].Content)
              /\ result.Conversation = conversation

\* success on a later response, after tool calls and with a non-empty content
C6_Witness ==
    /\ Returned /\ ~result.nil /\ result.Success
    /\ Len(responses) >= 2
    /\ result.FinalContent = <<"Done">>

\* C7: a response with tool calls never ends the task in its own iteration,
\* finished or not: while its calls run the task has not returned, every one
\* of its calls is executed, and the task ends only on a later provider call
\* or by exhaustion of the budget
C7_ToolCallsBeforeCompletion ==
    /\ (apc = "tools") => (result.nil /\ err = NoText /\ pending # <<>>)
    /\ (Returned /\ responses # <<>> /\ Last(responses).ToolCalls # <<>>)
          => /\ Len(toolLog) = Len(CallsOf(responses))
             /\ \/ err # NoText /\ providerCalls = Len(responses) + 1
                \/ /\ ~result.nil /\ ~result.Success
                   /\ result.FinalContent = <<"Task did not complete within maximum iterations">>
                   /\ providerCalls = BudgetOf(provider.name)
    /\ (Returned /\ ~result.nil /\ result.Success) => Last(responses).ToolCalls = <<>>

\* a response that claimed to be finished and carried tool calls, all executed,
\* with the task completed by a later response
C7_Witness ==
    /\ Returned /\ ~result.nil /\ result.Success
    /\ Len(responses) = 2
    /\ responses[1].Finished /\ Len(responses[1].ToolCalls) = 2
    /\ Len(toolLog) = 2

\* C8: when GenerateResponse returns an error, ExecuteTask has returned a nil
\* TaskResult and the provider error wrapped under "failed to get LLM
\* response"; the failed call is the last provider call and no tool call or
\* provider call can follow it
C8_ProviderErrorAborts ==
    /\ (apc # "provider" /\ providerCalls # Len(responses)) => err # NoText
    /\ (err # NoText) =>
          /\ Returned
          /\ result.nil
          /\ Head(err) = "failed to get LLM response:"
          /\ Tail(err) = <<"provider unavailable">>
          /\ providerCalls = Len(responses) + 1
          /\ Len(toolLog) = Len(CallsOf(responses))
          /\ ~ENABLED CallProvider
          /\ ~ENABLED ExecuteToolCall

\* a provider error on the third call, after tool calls were run
C8_Witness ==
    /\ err # NoText
    /\ providerCalls = 3
    /\ Len(toolLog) >= 1

RegisteredNames == {"test_tool", "denied_tool", "broken_tool"}

\* the transcript line the documentation prescribes for an executed call
ExpectedToolLine(rec) ==
    IF rec.call.Name \notin RegisteredNames
    THEN <<"Tool", rec.call.Name, "failed:", "tool not found:", rec.call.Name>>
    ELSE IF rec.out.goErr # <<>>
    THEN <<"Tool", rec.call.Name, "failed:">> \o rec.out.goErr
    ELSE IF rec.out.Error # <<>>
    THEN <<"Tool", rec.call.Name, "error:">> \o rec.out.Error
    ELSE <<"Tool", rec.call.Name, "result:">> \o rec.out.Content

\* C9: every executed tool call has exactly one tool_result entry, worded
\* "Tool <name> failed: <err>" for an unknown tool or a handler Go error,
\* "Tool <name> error: <msg>" for a ToolResult with Error and "Tool <name>
\* result: <content>" otherwise; a tool call never makes ExecuteTask return an
\* error, and the loop goes on to the remaining calls and the next iteration
C9_ToolFailuresFoldedIntoTranscript ==
    LET lines == EntriesOfType(conversation, "tool_result") IN
    /\ Len(lines) = Len(toolLog)
    /\ \A k \in 1..Len(toolLog) : lines[k].Content = ExpectedToolLine(toolLog[k])
    /\ (err # NoText) => providerCalls = Len(responses) + 1
    /\ (Returned /\ Last(conversation).Type = "tool_result")
          => \/ err # NoText /\ providerCalls = Len(responses) + 1
             \/ ~result.nil /\ ~result.Success /\ providerCalls = BudgetOf(provider.name)

\* the three kinds of failing call and a succeeding one, in one run that went on
C9_Witness ==
    /\ Len(toolLog) >= 2
    /\ \E j, k \in 1..Len(toolLog) :
          /\ toolLog[j].call.Name = "missing_tool"
          /\ toolLog[k].call.Name = "broken_tool"
    /\ Returned /\ ~result.nil /\ result.Success

\* C10: the tool calls of the responses are executed one at a time in the
\* order returned: what has been executed plus what is pending is always the
\* calls of the responses so far in their order, their tool_result entries
\* are in that order, and a provider call is outstanding only when no tool
\* call is pending and every earlier provider call has returned
C10_SequentialInOrder ==
    LET lines == EntriesOfType(conversation, "tool_result") IN
    /\ [k \in 1..Len(toolLog) |-> toolLog[k].call] \o pending = CallsOf(responses)
    /\ Len(lines) = Len(toolLog)
    /\ \A k \in 1..Len(lines) : lines[k].Content[2] = CallsOf(responses)[k].Name
    /\ (apc = "provider") => (pending = <<>> /\ providerCalls = Len(responses) + 1)
    /\ (apc # "provider" /\ err = NoText) => providerCalls = Len(responses)
    /\ (pending # <<>>) => apc = "tools"

\* two different calls of one response executed, the next provider call out
C10_Witness ==
    /\ apc = "provider"
    /\ Len(toolLog) = 2
    /\ toolLog[1].call.Name # toolLog[2].call.Name
    /\ Len(responses) = 1

(***************************************************************************)
(* The Agent with the package tools, on a package directory                *)
(***************************************************************************)
DocsRel == <<"_dev", "build", "docs">>

ListPaths ==
    {<<>>, <<"..">>, <<"docs">>, <<"_dev", "build", "docs", "..", "..", "..", "..", "etc">>}

ReadPaths ==
    {<<"manifest.yml">>, <<"..", "etc", "notes.md">>, <<"docs", "README.md">>,
     <<".", "docs", "README.md">>, ReadmeRel, <<"docs", "..", "..", "etc", "notes.md">>,
     <<"..cfg">>}

WritePaths ==
    {ReadmeRel, ReadmeRel \o <<"notes.md">>, DocsRel, DocsRel \o <<"..cfg">>,
     DocsRel \o <<"..", "notes.md">>, <<"..", "etc", "notes.md">>, <<"notes.md">>,
     DocsRel \o <<LongName>>}

NewContent == <<"# X">>

PackageCalls ==
    {ToolCall("list_directory", Args(p, NoText)) : p \in ListPaths}
    \cup {ToolCall("read_file", Args(p, NoText)) : p \in ReadPaths}
    \cup {ToolCall("write_file", Args(p, NewContent)) : p \in WritePaths}
    \cup {ToolCall(n, BadArgs) : n \in {"list_directory", "read_file", "write_file"}}

FinalResponse == LLMResponse(<<"Done">>, <<>>, TRUE)

StallResponse == LLMResponse(NoText, <<>>, FALSE)

ToolsRepertoire ==
    {LLMResponse(NoText, tc, FALSE) : tc \in SeqsUpTo(PackageCalls, MaxCalls) \ {<<>>}}
    \cup {FinalResponse}

\* the same package with a documentation source already written
FsWithReadme(content) ==
    [q \in Locations |->
        IF q \in Prefixes(PackageRoot \o DocsRel) THEN DirNode
        ELSE IF q = PackageRoot \o ReadmeRel THEN FileNode(content)
        ELSE BaseFs[q]]

InitTools ==
    /\ fs \in {BaseFs, FsWithReadme(<<"# Old">>)}
    /\ tools = PackageTools
    /\ provider \in {Provider("Amazon Bedrock", FALSE, NoResponse),
                     Provider("Amazon Bedrock", TRUE, StallResponse)}
    /\ InitAgentCommon
    /\ InitNoSession

TaskPrompt == <<"Update the documentation">>

CallExecuteTaskOnPackage == StartExecuteTask(TaskPrompt) /\ UNCHANGED sessVars

NextTools ==
    \/ CallExecuteTaskOnPackage
    \/ CallProvider
    \/ ProviderResponds(ToolsRepertoire)
    \/ ProviderFails
    \/ ExecuteToolCall
    \/ BudgetExhausted

SpecTools == InitTools /\ [][NextTools]_vars

(***************************************************************************)
(* Properties of the sandbox                                               *)
(***************************************************************************)
\* a location at <packageRoot>/_dev/build/docs or below it
InsideDocs(q) == Len(q) >= 4 /\ SubSeq(q, 1, 4) = <<"pkg", "_dev", "build", "docs">>

\* the directories between the package root and the docs directory
AboveDocs == {<<"pkg", "_dev">>, <<"pkg", "_dev", "build">>}

\* the write paths of the model that normalize outside _dev/build/docs
OutsideDocsPaths ==
    {<<"_dev", "build", "docs", "..", "notes.md">>, <<"..", "etc", "notes.md">>, <<"notes.md">>}

\* the call a step executed, when the step executed one
Executed(log, logAfter) == Len(logAfter) = Len(log) + 1

IsDeniedWrite(rec) ==
    /\ rec.call.Name = "write_file"
    /\ rec.call.Arguments.valid
    /\ rec.call.Arguments.path \in OutsideDocsPaths

DeniedCleanly(rec) ==
    /\ rec.out.goErr = <<>>
    /\ rec.out.Content = <<>>
    /\ rec.out.Error # <<>>
    /\ rec.out.Error[1] = "access denied"
    /\ rec.ops = <<>>

\* C1 as stated: every change of the filesystem is at a location inside
\* <packageRoot>/_dev/build/docs, and a write_file call whose path normalizes
\* outside it is denied and changes nothing
C1_WritesOnlyInsideDocs ==
    [][/\ \A q \in Locations : fs'[q] # fs[q] => InsideDocs(q)
       /\ (Executed(toolLog, toolLog') /\ IsDeniedWrite(Last(toolLog')))
             => (fs' = fs /\ DeniedCleanly(Last(toolLog')))]_vars

\* C1 amended: write_file creates or replaces files only at locations inside
\* <packageRoot>/_dev/build/docs; outside it, it does nothing but create the
\* missing directories _dev and _dev/build that lead to it; only a write_file
\* call whose path does not normalize outside changes anything, and a call
\* whose path normalizes outside is denied and changes nothing
C1_WritesOnlyInsideDocsOrItsParents ==
    [][/\ \A q \in Locations :
             fs'[q] # fs[q] =>
                \/ InsideDocs(q)
                \/ q \in AboveDocs /\ fs[q] = Absent /\ fs'[q] = DirNode
       /\ fs' # fs =>
             /\ Executed(toolLog, toolLog')
             /\ Last(toolLog').call.Name = "write_file"
             /\ Last(toolLog').call.Arguments.valid
             /\ Last(toolLog').call.Arguments.path \notin OutsideDocsPaths
       /\ (Executed(toolLog, toolLog') /\ IsDeniedWrite(Last(toolLog')))
             => (fs' = fs /\ DeniedCleanly(Last(toolLog')))]_vars

\* a write into the docs directory that had to create its parents, and a
\* denied write outside, in one run
C1_Witness ==
    /\ Len(toolLog) = 2
    /\ toolLog[1].call = ToolCall("write_file", Args(<<"_dev", "build", "docs", "README.md">>, <<"# X">>))
    /\ toolLog[1].out.Error = <<>>
    /\ IsDeniedWrite(toolLog[2])
    /\ fs[<<"pkg", "_dev">>] = DirNode
    /\ fs[<<"pkg", "_dev", "build", "docs", "README.md">>] = FileNode(<<"# X">>)
    /\ fs[<<"pkg", "notes.md">>] = Absent

\* the read paths of the model that contain ".." and normalize outside the
\* package root
EscapingPaths ==
    {<<"..">>, <<"..", "etc", "notes.md">>, <<"docs", "..", "..", "etc", "notes.md">>,
     <<"_dev", "build", "docs", "..", "..", "..", "..", "etc">>}

IsEscapingRead(rec) ==
    /\ rec.call.Name \in {"list_directory", "read_file"}
    /\ rec.call.Arguments.valid
    /\ rec.call.Arguments.path \in EscapingPaths

\* C2: list_directory and read_file answer every path that contains ".." and
\* normalizes outside the package root with an access-denied ToolResult error,
\* and make no filesystem call for it
C2_EscapingReadsDenied ==
    \A k \in 1..Len(toolLog) : IsEscapingRead(toolLog[k]) => DeniedCleanly(toolLog[k])

\* an existing directory and an existing file outside the root, both asked for
C2_Witness ==
    /\ Len(toolLog) = 2
    /\ toolLog[1].call = ToolCall("list_directory",
                                  Args(<<"_dev", "build", "docs", "..", "..", "..", "..", "etc">>, <<>>))
    /\ toolLog[2].call = ToolCall("read_file", Args(<<"..", "etc", "notes.md">>, <<>>))
    /\ fs[<<"etc", "notes.md">>] = FileNode(<<"secret">>)
    /\ toolLog[2].out.Error = <<"access denied", ": path outside package root">>

\* the requested path names a location below <packageRoot>/docs
UnderPackageDocs(raw) ==
    LET q == Clean(PackageRoot \o raw) IN
    Len(q) >= 3 /\ q[1] = "pkg" /\ q[2] = "docs"

\* C20: read_file never returns the content of a file below
\* <packageRoot>/docs, however the relative path is spelled: such a call gets
\* an access-denied ToolResult error
C20_DocsInvisibleToReadFile ==
    \A k \in 1..Len(toolLog) :
        (/\ toolLog[k].call.Name = "read_file"
         /\ toolLog[k].call.Arguments.valid
         /\ UnderPackageDocs(toolLog[k].call.Arguments.path))
            => /\ toolLog[k].out.Content = NoText
               /\ toolLog[k].out.Error = <<"access denied", ": invalid path">>

\* the entry lines of a listing, after its "Contents of <path>:" header
ListedNames(rec) ==
    LET c == rec.out.Content
        from == Len(rec.call.Arguments.path) + 3
    IN {c[i] : i \in from..Len(c)}

\* C21: list_directory never reveals generated artifacts: a listing of the
\* package root omits the directory docs, and no list_directory call, the one
\* for the path docs included, returns the name of an entry located under
\* <packageRoot>/docs
C21_ListingHidesGeneratedArtifacts ==
    \A k \in 1..Len(toolLog) :
        (/\ toolLog[k].call.Name = "list_directory"
         /\ toolLog[k].call.Arguments.valid)
            => LET target == Clean(PackageRoot \o toolLog[k].call.Arguments.path) IN
               /\ target = <<"pkg">> => "docs" \notin ListedNames(toolLog[k])
               /\ target = <<"pkg", "docs">> => "README.md" \notin ListedNames(toolLog[k])

\* the requested path normalizes to a location inside the package root and
\* outside <packageRoot>/docs
InsideRootOutsideDocs(raw) ==
    LET q == Clean(PackageRoot \o raw) IN
    /\ Len(q) >= 1
    /\ q[1] = "pkg"
    /\ ~(Len(q) >= 2 /\ q[2] = "docs")

\* C22: for every requested path that normalizes to a location inside the
\* package root and outside docs, whatever its segments are called,
\* list_directory and read_file do not deny access and make their filesystem
\* call on the equivalent absolute path
C22_InsidePathsNotDenied ==
    \A k \in 1..Len(toolLog) :
        (/\ toolLog[k].call.Name \in {"list_directory", "read_file"}
         /\ toolLog[k].call.Arguments.valid
         /\ InsideRootOutsideDocs(toolLog[k].call.Arguments.path))
            => /\ toolLog[k].out.Error = <<>> \/ toolLog[k].out.Error[1] # "access denied"
               /\ Len(toolLog[k].ops) = 1
               /\ toolLog[k].ops[1].path = Clean(PackageRoot \o toolLog[k].call.Arguments.path)

PackageToolNames == {"list_directory", "read_file", "write_file"}

\* the call cannot succeed on the filesystem it finds: its arguments do not
\* parse, its path leaves the sandbox, or the file or directory it asks for
\* is not there
MustFail(rec, fsys) ==
    LET a == rec.call.Arguments IN
    \/ ~a.valid
    \/ a.path \in EscapingPaths \cup OutsideDocsPaths
    \/ rec.call.Name = "read_file" /\ ~IsFile(fsys, Clean(PackageRoot \o a.path))
    \/ rec.call.Name = "list_directory" /\ ~IsDir(fsys, Clean(PackageRoot \o a.path))

\* C23: no handler of the package tools returns a Go error: malformed
\* arguments, access denial and filesystem failures come back as a ToolResult
\* with Error set, which ExecuteTask records as a "Tool <name> error: ..."
\* entry
C23_HandlersReturnNoGoError ==
    [][(Executed(toolLog, toolLog') /\ Last(toolLog').call.Name \in PackageToolNames)
          => LET rec == Last(toolLog') IN
             /\ rec.out.goErr = <<>>
             /\ MustFail(rec, fs)
                   => /\ rec.out.Error # <<>>
                      /\ rec.out.Content = <<>>
                      /\ Last(conversation') =
                            [Type |-> "tool_result",
                             Content |-> <<"Tool", rec.call.Name, "error:">> \o rec.out.Error]]_vars

\* malformed arguments and a file that is not there, both reported as tool
\* errors in the transcript
C23_Witness ==
    /\ Len(toolLog) = 2
    /\ toolLog[1].call = ToolCall("list_directory", BadArgs)
    /\ toolLog[1].out.Error = <<"failed to parse arguments:", "invalid JSON">>
    /\ toolLog[2].call = ToolCall("read_file", Args(<<"_dev", "build", "docs", "README.md">>, <<>>))
    /\ toolLog[2].out.Error = <<"failed to read file:", "open">>
    /\ Last(conversation).Content =
          <<"Tool", "read_file", "error:", "failed to read file:", "open">>

\* C24: a tool call that returns a ToolResult with Error set leaves the
\* filesystem as it was before the call; a failing write_file creates no file
\* and no intermediate directory
C24_FailedCallChangesNothing ==
    [][(Executed(toolLog, toolLog') /\ Last(toolLog').out.Error # <<>>) => fs' = fs]_vars

(***************************************************************************)
(* Response classification (docagent)                                      *)
(***************************************************************************)
\* strings.ToLower on the tokens of the model that have capitals
ToLower(tok) ==
    CASE tok = "Done" -> "done"
      [] tok = "Successfully wrote" -> "successfully wrote"
      [] tok = "I reached the maximum response length" -> "i reached the maximum response length"
      [] tok = "I encountered an error" -> "i encountered an error"
      [] tok = "I'm experiencing an error" -> "i'm experiencing an error"
      [] tok = "I cannot complete" -> "i cannot complete"
      [] tok = "I'm unable to complete" -> "i'm unable to complete"
      [] tok = "Something went wrong" -> "something went wrong"
      [] tok = "SOMETHING WENT WRONG" -> "something went wrong"
      [] tok = "There was an error" -> "there was an error"
      [] tok = "I'm having trouble" -> "i'm having trouble"
      [] tok = "I failed to" -> "i failed to"
      [] tok = "I FAILED TO" -> "i failed to"
      [] tok = "Error occurred" -> "error occurred"
      [] tok = "Task did not complete within maximum iterations" ->
              "task did not complete within maximum iterations"
      [] tok = "Tool" -> "tool"
      [] tok = "Permission denied" -> "permission denied"
      [] tok = "README.md" -> "readme.md"
      [] tok = "# X" -> "# x"
      [] tok = "# Old" -> "# old"
      [] OTHER -> tok

LowerText(text) == [k \in 1..Len(text) |-> ToLower(text[k])]

\* the phrases that occur inside a longer token
PartsOf(tok) ==
    CASE tok = "i reached the maximum response length" -> {"maximum response length"}
      [] tok = "file access denied" -> {"access denied"}
      [] OTHER -> {}

\* strings.Contains(text, phrase)
Contains(text, phrase) ==
    \E k \in 1..Len(text) : text[k] = phrase \/ phrase \in PartsOf(text[k])

\* strings.TrimSpace(text) == ""
IsBlank(text) == \A k \in 1..Len(text) : text[k] \in {" ", "\n", "\t"}

TokenLimitIndicators ==
    {"I reached the maximum response length", "maximum response length",
     "reached the token limit", "response is too long", "breaking this into smaller tasks",
     "due to length constraints", "response length limit", "token limit reached",
     "output limit exceeded", "maximum length exceeded"}

ErrorIndicators ==
    {"I encountered an error", "I'm experiencing an error", "I cannot complete",
     "I'm unable to complete", "Something went wrong", "There was an error",
     "I'm having trouble", "I failed to", "Error occurred",
     "Task did not complete within maximum iterations"}

isTokenLimitMessage(content) ==
    \E ind \in TokenLimitIndicators : Contains(LowerText(content), ToLower(ind))

\* the scan of hasRecentSuccessfulTools from entry i downwards
RECURSIVE RecentSuccessFrom(_, _)
RecentSuccessFrom(conv, i) ==
    IF ~(i >= 1 /\ i >= Len(conv) - 4) THEN FALSE
    ELSE IF conv[i].Type # "tool_result" THEN RecentSuccessFrom(conv, i - 1)
    ELSE LET content == LowerText(conv[i].Content) IN
         IF \/ Contains(content, "[check mark] success")
            \/ Contains(content, "successfully wrote")
            \/ Contains(content, "completed successfully")
         THEN TRUE
         ELSE IF \/ Contains(content, "[cross mark] error")
                 \/ Contains(content, "failed:")
                 \/ Contains(content, "access denied")
         THEN FALSE
         ELSE RecentSuccessFrom(conv, i - 1)

\* a success marker anywhere in the last five entries, failures not stopping
\* the scan
hasRecentSuccessfulToolsNoStop(conv) ==
    \E i \in 1..Len(conv) :
        /\ i >= Len(conv) - 4
        /\ conv[i].Type = "tool_result"
        /\ LET content == LowerText(conv[i].Content) IN
               \/ Contains(content, "[check mark] success")
               \/ Contains(content, "successfully wrote")
               \/ Contains(content, "completed successfully")

hasRecentSuccessfulTools(conv) == RecentSuccessFrom(conv, Len(conv))

\* the error indicators looked for without the token-limit test before them
isTaskResultErrorBeforeLimit(content, conv, hasConv) ==
    IF IsBlank(content) THEN FALSE
    ELSE IF ~\E ind \in ErrorIndicators : Contains(LowerText(content), ToLower(ind)) THEN FALSE
    ELSE IF hasConv /\ hasRecentSuccessfulTools(conv) THEN FALSE
    ELSE TRUE

\* isTaskResultError(content, conversation); hasConv is conversation != nil
isTaskResultError(content, conv, hasConv) ==
    IF IsBlank(content) THEN FALSE
    ELSE IF isTokenLimitMessage(content) THEN FALSE
    ELSE IF ~\E ind \in ErrorIndicators : Contains(LowerText(content), ToLower(ind)) THEN FALSE
    ELSE IF hasConv /\ hasRecentSuccessfulTools(conv) THEN FALSE
    ELSE TRUE

isErrorResponse(content) == isTaskResultError(content, <<>>, FALSE)

(***************************************************************************)
(* Preserved sections: extractPreservedSections and                        *)
(* validatePreservedSections                                               *)
(***************************************************************************)
Markers ==
    <<[start |-> "<!-- HUMAN-EDITED START -->", end |-> "<!-- HUMAN-EDITED END -->",
       name |-> "HUMAN-EDITED"],
      [start |-> "<!-- PRESERVE START -->", end |-> "<!-- PRESERVE END -->",
       name |-> "PRESERVE"]>>

\* strings.Index(content[from:], tok) + from, positions counted from 1 and 0
\* standing for "not found"
IndexFrom(content, from, tok) ==
    LET hits == {k \in from..Len(content) : content[k] = tok} IN
    IF hits = {} THEN 0 ELSE CHOOSE k \in hits : \A h \in hits : k <= h

\* the inner loop of extractPreservedSections for one marker pair
RECURSIVE SectionsFrom(_, _, _, _)
SectionsFrom(content, marker, startIdx, sectionNum) ==
    LET start == IndexFrom(content, startIdx, marker.start) IN
    IF start = 0 THEN {}
    ELSE LET end == IndexFrom(content, start, marker.end) IN
         IF end = 0 THEN {}
         ELSE {[key |-> <<marker.name, "-", FmtInt(sectionNum)>>,
                content |-> SubSeq(content, start, end)]}
              \cup SectionsFrom(content, marker, end + 1, sectionNum + 1)

\* only the first marker kind looked for
extractPreservedSectionsFirstKind(content) == SectionsFrom(content, Markers[1], 1, 1)

\* the map from section key to section text, markers included
extractPreservedSections(content) ==
    UNION {SectionsFrom(content, Markers[i], 1, 1) : i \in 1..Len(Markers)}

\* strings.HasPrefix(text, part)
StartsWithText(text, part) ==
    Len(part) <= Len(text) /\ SubSeq(text, 1, Len(part)) = part

\* strings.Contains(text, part) on whole documents
ContainsText(text, part) ==
    \E off \in 0..(Len(text) - Len(part)) : SubSeq(text, off + 1, off + Len(part)) = part

Warning(key) == <<"Human-edited section '">> \o key \o <<"' was not preserved">>

\* one warning for the whole document when any section is missing
validatePreservedSectionsAggregated(originalContent, newContent) ==
    IF \E sec \in extractPreservedSections(originalContent) : ~ContainsText(newContent, sec.content)
    THEN {Warning(<<"HUMAN-EDITED", "-", FmtInt(1)>>)}
    ELSE {}

\* the warnings of validatePreservedSections; their order is the iteration
\* order of the map
validatePreservedSections(originalContent, newContent) ==
    {Warning(sec.key) : sec \in {x \in extractPreservedSections(originalContent) :
                                    ~ContainsText(newContent, x.content)}}

(***************************************************************************)
(* The documentation session: DocumentationAgent.UpdateDocumentation and   *)
(* runInteractiveMode, one action for each stretch between two user prompts *)
(***************************************************************************)
ReadmePath == PackageRoot \o ReadmeRel

ManifestPath == PackageRoot \o <<"manifest.yml">>

\* packages.ReadPackageManifestFromPackageRoot succeeds
ManifestReadable(fsys) == IsFile(fsys, ManifestPath)

buildInitialPrompt(fsys) == <<"initial_prompt.txt">> \o fsys[ManifestPath].data

\* the initial template used again after a token limit
buildSectionBasedPromptInitial(fsys) == <<"initial_prompt.txt">> \o fsys[ManifestPath].data

buildSectionBasedPrompt(fsys) == <<"limit_hit_prompt.txt">> \o fsys[ManifestPath].data

buildRevisionPrompt(fsys, changes) ==
    IF ~ManifestReadable(fsys)
    THEN <<"Please make the following changes to the documentation:">> \o changes
    ELSE <<"revision_prompt.txt">> \o fsys[ManifestPath].data \o changes

ErrorRetryChanges ==
    <<"The previous attempt encountered an error. Please try a different approach to analyze the package and create/update the documentation.">>

NotWrittenChanges ==
    <<"You haven't written a README.md file yet. Please write the README.md file in the _dev/build/docs/ directory based on your analysis.">>

Original(content) == [present |-> TRUE, content |-> content]

\* backupOriginalReadme: the content when the file can be read, nil when
\* nothing is there, and the field left as it was when reading fails
backupOriginalReadme(fsys, before) ==
    IF Exists(fsys, ReadmePath)
    THEN IF IsFile(fsys, ReadmePath) THEN Original(fsys[ReadmePath].data) ELSE before
    ELSE NoOriginal

\* restoreOriginalReadme: write the original back, or remove what is there;
\* a failure of either is only reported
restoreOriginalReadme(fsys, original) ==
    IF original.present
    THEN IF WriteFileFails(fsys, ReadmePath) THEN fsys
         ELSE WriteFile(fsys, ReadmePath, original.content)
    ELSE IF RemoveFails(fsys, ReadmePath) THEN fsys
         ELSE Remove(fsys, ReadmePath)

\* with no original, any readable file counted as an update
checkReadmeUpdatedAnyFile(fsys, original) ==
    IF ~Exists(fsys, ReadmePath) THEN FALSE
    ELSE IF ~IsFile(fsys, ReadmePath) THEN FALSE
    ELSE IF ~original.present THEN TRUE
    ELSE fsys[ReadmePath].data # original.content

\* checkReadmeUpdated: the README can be read and differs from the original,
\* or, with no original, is not empty
checkReadmeUpdated(fsys, original) ==
    IF ~Exists(fsys, ReadmePath) THEN FALSE
    ELSE IF ~IsFile(fsys, ReadmePath) THEN FALSE
    ELSE IF ~original.present THEN fsys[ReadmePath].data # NoText
    ELSE fsys[ReadmePath].data # original.content

\* displayReadmeIfUpdated: updated, readable and not empty
displayReadmeIfUpdated(fsys, original) ==
    IF ~checkReadmeUpdated(fsys, original) THEN FALSE
    ELSE IF ~IsFile(fsys, ReadmePath) \/ fsys[ReadmePath].data = NoText THEN FALSE
    ELSE TRUE

Return(via, e) ==
    /\ spc' = "exit"
    /\ exitVia' = via
    /\ sessionErr' = e

PromptFailedText == <<"prompt failed:", "interrupt">>

\* UpdateDocumentation up to the first agent run
UpdateDocumentation ==
    /\ spc = "start"
    /\ startReadme' = fs[ReadmePath]
    /\ IF ~ManifestReadable(fs)
       THEN /\ Return("manifest", <<"failed to read package manifest:", "open">>)
            /\ UNCHANGED <<originalReadmeContent, nextPrompt>>
       ELSE /\ originalReadmeContent' = backupOriginalReadme(fs, originalReadmeContent)
            /\ nextPrompt' = buildInitialPrompt(fs)
            /\ spc' = "run"
            /\ UNCHANGED <<exitVia, sessionErr>>
    /\ UNCHANGED <<fs, agentVars, readmeUpdated, auxVars>>

\* the original captured again before every run
ExecuteTaskWithLoggingRecapturing ==
    /\ spc = "run"
    /\ StartExecuteTask(nextPrompt)
    /\ spc' = "running"
    /\ originalReadmeContent' = backupOriginalReadme(fs, originalReadmeContent)
    /\ UNCHANGED <<nextPrompt, readmeUpdated, exitVia, sessionErr, startReadme, auxVars>>

\* executeTaskWithLogging enters Agent.ExecuteTask with the current prompt
ExecuteTaskWithLogging ==
    /\ spc = "run"
    /\ StartExecuteTask(nextPrompt)
    /\ spc' = "running"
    /\ UNCHANGED <<originalReadmeContent, nextPrompt, readmeUpdated, exitVia, sessionErr,
                   startReadme, auxVars>>

\* the original restored before an agent error is returned
AfterRunRestoring ==
    /\ spc = "running"
    /\ apc = "done"
    /\ IF err # NoText
       THEN /\ Return("agent error", <<"agent task failed:">> \o err)
            /\ fs' = restoreOriginalReadme(fs, originalReadmeContent)
            /\ UNCHANGED <<nextPrompt, readmeUpdated>>
       ELSE IF isTokenLimitMessage(result.FinalContent)
       THEN IF ~ManifestReadable(fs)
            THEN /\ Return("manifest", <<"failed to read package manifest:", "open">>)
                 /\ UNCHANGED <<fs, nextPrompt, readmeUpdated>>
            ELSE /\ nextPrompt' = buildSectionBasedPrompt(fs)
                 /\ spc' = "run"
                 /\ UNCHANGED <<fs, readmeUpdated, exitVia, sessionErr>>
       ELSE IF isTaskResultError(result.FinalContent, result.Conversation, TRUE)
       THEN /\ spc' = "askError"
            /\ UNCHANGED <<fs, nextPrompt, readmeUpdated, exitVia, sessionErr>>
       ELSE /\ readmeUpdated' = displayReadmeIfUpdated(fs, originalReadmeContent)
            /\ spc' = "askAction"
            /\ UNCHANGED <<fs, nextPrompt, exitVia, sessionErr>>
    /\ UNCHANGED <<agentVars, originalReadmeContent, startReadme, auxVars>>

\* ExecuteTask returned: classify its result and go on to the next run or to
\* the prompt the user is asked next
AfterRun ==
    /\ spc = "running"
    /\ apc = "done"
    /\ IF err # NoText
       THEN /\ Return("agent error", <<"agent task failed:">> \o err)
            /\ UNCHANGED <<nextPrompt, readmeUpdated>>
       ELSE IF isTokenLimitMessage(result.FinalContent)
       THEN IF ~ManifestReadable(fs)
            THEN /\ Return("manifest", <<"failed to read package manifest:", "open">>)
                 /\ UNCHANGED <<nextPrompt, readmeUpdated>>
            ELSE /\ nextPrompt' = buildSectionBasedPrompt(fs)
                 /\ spc' = "run"
                 /\ UNCHANGED <<readmeUpdated, exitVia, sessionErr>>
       ELSE IF isTaskResultError(result.FinalContent, result.Conversation, TRUE)
       THEN /\ spc' = "askError"
            /\ UNCHANGED <<nextPrompt, readmeUpdated, exitVia, sessionErr>>
       ELSE /\ readmeUpdated' = displayReadmeIfUpdated(fs, originalReadmeContent)
            /\ spc' = "askAction"
            /\ UNCHANGED <<nextPrompt, exitVia, sessionErr>>
    /\ UNCHANGED <<fs, agentVars, originalReadmeContent, startReadme, auxVars>>

\* handleInteractiveError: the answer to "Try again" / "Exit"
AnswerError ==
    /\ spc = "askError"
    /\ \E answer \in {"Try again", "Exit", "failed"} :
         CASE answer = "failed" ->
                /\ Return("prompt failed", PromptFailedText)
                /\ UNCHANGED <<fs, nextPrompt>>
           [] answer = "Exit" ->
                /\ fs' = restoreOriginalReadme(fs, originalReadmeContent)
                /\ Return("Exit", <<"user chose to exit due to LLM error">>)
                /\ UNCHANGED nextPrompt
           [] OTHER ->
                /\ nextPrompt' = buildRevisionPrompt(fs, ErrorRetryChanges)
                /\ spc' = "run"
                /\ UNCHANGED <<fs, exitVia, sessionErr>>
    /\ UNCHANGED <<agentVars, originalReadmeContent, readmeUpdated, startReadme, auxVars>>

\* the warnings handleAcceptAction prints before it finishes: those of
\* validatePreservedSections, when an original was captured and the current
\* README can be read
AcceptWarnings(fsys, original) ==
    IF original.present /\ IsFile(fsys, ReadmePath)
    THEN validatePreservedSections(original.content, fsys[ReadmePath].data)
    ELSE {}

\* getUserAction and handleUserAction: the answer to "Accept and finalize" /
\* "Request changes" / "Cancel"
AnswerAction ==
    /\ spc = "askAction"
    /\ \E answer \in {"Accept and finalize", "Request changes", "Cancel", "failed"} :
         CASE answer = "failed" ->
                /\ Return("prompt failed", PromptFailedText)
                /\ UNCHANGED <<fs, printed>>
           [] answer = "Cancel" ->
                /\ fs' = restoreOriginalReadme(fs, originalReadmeContent)
                /\ Return("Cancel", NoText)
                /\ UNCHANGED printed
           [] answer = "Request changes" ->
                /\ spc' = "askChanges"
                /\ UNCHANGED <<fs, exitVia, sessionErr, printed>>
           [] OTHER ->
                /\ IF readmeUpdated
                   THEN /\ printed' = printed \cup AcceptWarnings(fs, originalReadmeContent)
                        /\ Return("Accept and finalize", NoText)
                   ELSE /\ spc' = "askContinue"
                        /\ UNCHANGED <<exitVia, sessionErr, printed>>
                /\ UNCHANGED fs
    /\ UNCHANGED <<agentVars, originalReadmeContent, nextPrompt, readmeUpdated, startReadme,
                   firstResult, fnCall, fnRet, cancelled, anim>>

\* handleAcceptAction when the README was not updated: the answer to
\* "Try again" / "Exit anyway"
AnswerContinue ==
    /\ spc = "askContinue"
    /\ \E answer \in {"Try again", "Exit anyway", "failed"} :
         CASE answer = "failed" ->
                /\ Return("prompt failed", PromptFailedText)
                /\ UNCHANGED <<fs, nextPrompt>>
           [] answer = "Exit anyway" ->
                /\ fs' = restoreOriginalReadme(fs, originalReadmeContent)
                /\ Return("Exit anyway", NoText)
                /\ UNCHANGED nextPrompt
           [] OTHER ->
                /\ nextPrompt' = buildRevisionPrompt(fs, NotWrittenChanges)
                /\ spc' = "run"
                /\ UNCHANGED <<fs, exitVia, sessionErr>>
    /\ UNCHANGED <<agentVars, originalReadmeContent, readmeUpdated, startReadme, auxVars>>

\* what tui.AskTextArea may give back
ChangeInputs ==
    {[kind |-> "text", text |-> <<"Add a troubleshooting section">>],
     [kind |-> "text", text |-> <<" ">>],
     [kind |-> "cancelled", text |-> NoText],
     [kind |-> "failed", text |-> NoText]}

\* handleRequestChanges: the text entered; on a cancelled or blank input the
\* loop continues with the prompt handleRequestChanges returned, the empty one
AnswerChanges ==
    /\ spc = "askChanges"
    /\ \E input \in ChangeInputs :
         CASE input.kind = "failed" ->
                /\ Return("prompt failed", PromptFailedText)
                /\ UNCHANGED nextPrompt
           [] input.kind = "cancelled" \/ IsBlank(input.text) ->
                /\ nextPrompt' = NoText
                /\ spc' = "run"
                /\ UNCHANGED <<exitVia, sessionErr>>
           [] OTHER ->
                /\ nextPrompt' = buildRevisionPrompt(fs, input.text)
                /\ spc' = "run"
                /\ UNCHANGED <<exitVia, sessionErr>>
    /\ UNCHANGED <<fs, agentVars, originalReadmeContent, readmeUpdated, startReadme, auxVars>>

SessionCalls ==
    {ToolCall("write_file", Args(ReadmeRel, NewContent)),
     ToolCall("write_file", Args(ReadmeRel \o <<"notes.md">>, NewContent)),
     ToolCall("write_file", Args(<<"notes.md">>, NewContent))}

SessionContents ==
    {<<"Done">>, <<"I encountered an error">>, <<"I reached the maximum response length">>}

SessionRepertoire ==
    {LLMResponse(NoText, tc, FALSE) : tc \in SeqsUpTo(SessionCalls, MaxCalls) \ {<<>>}}
    \cup {LLMResponse(c, <<>>, TRUE) : c \in SessionContents}

\* a DocumentationAgent just constructed, UpdateDocumentation not yet called
NewDocumentationAgent ==
    /\ tools = PackageTools
    /\ InitAgentCommon
    /\ spc = "start"
    /\ originalReadmeContent = NoOriginal
    /\ nextPrompt = NoText
    /\ readmeUpdated = FALSE
    /\ exitVia = "none"
    /\ sessionErr = NoText
    /\ startReadme = Absent
    /\ InitAux

InitSession ==
    /\ fs \in {BaseFs, FsWithReadme(<<"# Old">>), FsWithReadme(NoText)}
    /\ tools = PackageTools
    /\ provider \in {Provider("Amazon Bedrock", FALSE, NoResponse),
                     Provider("Amazon Bedrock", TRUE, StallResponse)}
    /\ InitAgentCommon
    /\ spc = "start"
    /\ originalReadmeContent = NoOriginal
    /\ nextPrompt = NoText
    /\ readmeUpdated = FALSE
    /\ exitVia = "none"
    /\ sessionErr = NoText
    /\ startReadme = Absent
    /\ InitAux

NextSession ==
    \/ UpdateDocumentation
    \/ ExecuteTaskWithLogging
    \/ CallProvider
    \/ ProviderResponds(SessionRepertoire)
    \/ ProviderFails
    \/ ExecuteToolCall
    \/ BudgetExhausted
    \/ AfterRun
    \/ AnswerError
    \/ AnswerAction
    \/ AnswerContinue
    \/ AnswerChanges

SpecSession == InitSession /\ [][NextSession]_vars

(***************************************************************************)
(* runNonInteractiveMode, one action for each stretch between two agent    *)
(* runs                                                                    *)
(***************************************************************************)
\* any non-empty README counted as an update, the original not compared
handleReadmeUpdateAnyFile(fsys, original) ==
    IsFile(fsys, ReadmePath) /\ fsys[ReadmePath].data # NoText

\* handleReadmeUpdate: updated, readable and not empty
handleReadmeUpdate(fsys, original) ==
    IF ~checkReadmeUpdated(fsys, original) THEN FALSE
    ELSE IF ~IsFile(fsys, ReadmePath) \/ fsys[ReadmePath].data = NoText THEN FALSE
    ELSE TRUE

SpecificPrompt ==
    <<"You haven't updated a README.md file yet. Please create the README.md file in the _dev/build/docs/ directory based on your analysis. This is required to complete the task.">>

ReturnNonInteractive(via, e) ==
    /\ spc' = "n_exit"
    /\ exitVia' = via
    /\ sessionErr' = e

\* UpdateDocumentation with nonInteractive set, up to the first attempt
UpdateDocumentationNonInteractive ==
    /\ spc = "start"
    /\ startReadme' = fs[ReadmePath]
    /\ IF ~ManifestReadable(fs)
       THEN /\ ReturnNonInteractive("manifest", <<"failed to read package manifest:", "open">>)
            /\ UNCHANGED <<originalReadmeContent, nextPrompt>>
       ELSE /\ originalReadmeContent' = backupOriginalReadme(fs, originalReadmeContent)
            /\ nextPrompt' = buildInitialPrompt(fs)
            /\ spc' = "n_first"
            /\ UNCHANGED <<exitVia, sessionErr>>
    /\ UNCHANGED <<fs, agentVars, readmeUpdated, auxVars>>

RunningOf(at) ==
    CASE at = "n_first" -> "n_first_running"
      [] at = "n_section" -> "n_section_running"
      [] OTHER -> "n_second_running"

\* executeTaskWithLogging as runNonInteractiveMode calls it
NonInteractiveExecute ==
    /\ spc \in {"n_first", "n_section", "n_second"}
    /\ StartExecuteTask(nextPrompt)
    /\ spc' = RunningOf(spc)
    /\ UNCHANGED <<originalReadmeContent, nextPrompt, readmeUpdated, exitVia, sessionErr,
                   startReadme, auxVars>>

\* a classified error answered with the second attempt instead of a return
ClassifyAndDecideRetryOnError(first) ==
    IF handleReadmeUpdate(fs, originalReadmeContent)
    THEN /\ ReturnNonInteractive("updated", NoText)
         /\ UNCHANGED nextPrompt
    ELSE /\ nextPrompt' = SpecificPrompt
         /\ spc' = "n_second"
         /\ UNCHANGED <<exitVia, sessionErr>>

\* the error check on the first result, the update check and the decision to
\* try a second time
ClassifyAndDecide(first) ==
    IF isTaskResultError(first.FinalContent, first.Conversation, TRUE)
    THEN /\ ReturnNonInteractive("classified error",
                                 <<"LLM agent encountered an error:">> \o first.FinalContent)
         /\ UNCHANGED nextPrompt
    ELSE IF handleReadmeUpdate(fs, originalReadmeContent)
    THEN /\ ReturnNonInteractive("updated", NoText)
         /\ UNCHANGED nextPrompt
    ELSE /\ nextPrompt' = SpecificPrompt
         /\ spc' = "n_second"
         /\ UNCHANGED <<exitVia, sessionErr>>

\* the first attempt returned
AfterFirstAttempt ==
    /\ spc = "n_first_running"
    /\ apc = "done"
    /\ firstResult' = result
    /\ IF err # NoText
       THEN /\ ReturnNonInteractive("agent error", <<"agent task failed:">> \o err)
            /\ UNCHANGED nextPrompt
       ELSE IF isTokenLimitMessage(result.FinalContent)
       THEN IF ~ManifestReadable(fs)
            THEN /\ ReturnNonInteractive("manifest",
                        <<"failed to handle token limit:", "failed to read package manifest:", "open">>)
                 /\ UNCHANGED nextPrompt
            ELSE /\ nextPrompt' = buildSectionBasedPrompt(fs)
                 /\ spc' = "n_section"
                 /\ UNCHANGED <<exitVia, sessionErr>>
       ELSE ClassifyAndDecide(result)
    /\ UNCHANGED <<fs, agentVars, originalReadmeContent, readmeUpdated, startReadme,
                   fnCall, fnRet, ioVars>>

\* the section-based retry returned
AfterSectionRetry ==
    /\ spc = "n_section_running"
    /\ apc = "done"
    /\ IF err # NoText
       THEN /\ ReturnNonInteractive("agent error",
                    <<"section-based retry failed:", "agent task failed:">> \o err)
            /\ UNCHANGED nextPrompt
       ELSE IF handleReadmeUpdate(fs, originalReadmeContent)
       THEN /\ ReturnNonInteractive("updated", NoText)
            /\ UNCHANGED nextPrompt
       ELSE ClassifyAndDecide(firstResult)
    /\ UNCHANGED <<fs, agentVars, originalReadmeContent, readmeUpdated, startReadme, auxVars>>

\* the second attempt returned
AfterSecondAttempt ==
    /\ spc = "n_second_running"
    /\ apc = "done"
    /\ IF err # NoText
       THEN ReturnNonInteractive("agent error",
                <<"second attempt failed:", "agent task failed:">> \o err)
       ELSE IF handleReadmeUpdate(fs, originalReadmeContent)
       THEN ReturnNonInteractive("updated", NoText)
       ELSE ReturnNonInteractive("not updated",
                <<"failed to create README.md after two attempts">>)
    /\ UNCHANGED <<fs, agentVars, originalReadmeContent, nextPrompt, readmeUpdated,
                   startReadme, auxVars>>

\* final answers of the model under both modes; the last one names a length
\* limit and a failure at once
DocsContents ==
    {<<"Done">>, <<"I encountered an error">>, <<"I reached the maximum response length">>,
     <<"I failed to", "due to length constraints">>}

DocsRepertoire ==
    {LLMResponse(NoText, tc, FALSE) : tc \in SeqsUpTo(SessionCalls, MaxCalls) \ {<<>>}}
    \cup {LLMResponse(c, <<>>, TRUE) : c \in DocsContents}

NextDocs ==
    \/ UpdateDocumentation
    \/ UpdateDocumentationNonInteractive
    \/ ExecuteTaskWithLogging
    \/ NonInteractiveExecute
    \/ CallProvider
    \/ ProviderResponds(DocsRepertoire)
    \/ ProviderFails
    \/ ExecuteToolCall
    \/ BudgetExhausted
    \/ AfterRun
    \/ AnswerError
    \/ AnswerAction
    \/ AnswerContinue
    \/ AnswerChanges
    \/ AfterFirstAttempt
    \/ AfterSectionRetry
    \/ AfterSecondAttempt

\* a provider that answers every call with one more write of the README and
\* never says it has finished
RewriteResponse ==
    LLMResponse(NoText, <<ToolCall("write_file", Args(ReadmeRel, NewContent))>>, FALSE)

InitDocs ==
    /\ fs \in {BaseFs, FsWithReadme(<<"# Old">>), FsWithReadme(NoText)}
    /\ provider \in {Provider("Amazon Bedrock", FALSE, NoResponse),
                     Provider("Amazon Bedrock", TRUE, StallResponse),
                     Provider("Amazon Bedrock", TRUE, RewriteResponse)}
    /\ NewDocumentationAgent

SpecDocs == InitDocs /\ [][NextDocs]_vars

(***************************************************************************)
(* Properties of the session                                               *)
(***************************************************************************)
\* C3: when an interactive session has ended through Cancel, through Exit
\* after a classified error or through "Exit anyway", the README path is as it
\* was when the session started: the original file with its original content,
\* or nothing when nothing was there
C3_CancelRestoresSessionStart ==
    (spc = "exit" /\ exitVia \in {"Cancel", "Exit", "Exit anyway"})
        => fs[<<"pkg", "_dev", "build", "docs", "README.md">>] = startReadme

(***************************************************************************)
(* Properties of the classification and of the two session modes           *)
(***************************************************************************)
\* the final answers that carry a token-limit phrase, spelled out
LimitTexts ==
    {<<"I reached the maximum response length">>, <<"I failed to", "due to length constraints">>}

FirstRunReturned ==
    /\ spc \in {"running", "n_first_running"}
    /\ apc = "done"
    /\ err = NoText

\* C11: a final answer that contains a token-limit phrase is classified as
\* token-limit and not as an error, also when it contains an error phrase, and
\* both modes take the token-limit branch (the section-based prompt, no error)
\* on it
C11_TokenLimitOverridesError ==
    /\ [][(FirstRunReturned /\ result.FinalContent \in LimitTexts)
            => /\ isTokenLimitMessage(result.FinalContent)
               /\ ~isTaskResultError(result.FinalContent, result.Conversation, TRUE)
               /\ ~isErrorResponse(result.FinalContent)
               /\ spc' \in {"run", "n_section"}
               /\ nextPrompt' = buildSectionBasedPrompt(fs)
               /\ sessionErr' = NoText]_vars
    /\ [](exitVia = "classified error" => firstResult.FinalContent \notin LimitTexts)
    /\ [](spc = "askError" => result.FinalContent \notin LimitTexts)

C11_Witness ==
    /\ spc = "n_section"
    /\ result.FinalContent = <<"I failed to", "due to length constraints">>
    /\ ~hasRecentSuccessfulTools(result.Conversation)
    /\ isTaskResultErrorBeforeLimit(result.FinalContent, result.Conversation, TRUE)

\* the README is a non-empty file that differs from what the session found
DocumentChanged ==
    /\ fs[ReadmePath].kind = "file"
    /\ fs[ReadmePath].data # NoText
    /\ fs[ReadmePath] # startReadme

FirstAttemptReturned ==
    /\ spc = "n_first_running"
    /\ apc = "done"
    /\ err = NoText

ClassifiedNeither(res) ==
    /\ ~res.nil
    /\ ~isTokenLimitMessage(res.FinalContent)
    /\ ~isTaskResultError(res.FinalContent, res.Conversation, TRUE)

\* C13: in non-interactive mode, after a first run classified neither as error
\* nor as token-limit, the session returns success at once when the document
\* changed and is not empty; otherwise it runs the agent once more, and only
\* once, with the "You haven't updated a README.md file yet" prompt, and
\* returns an error when the document is still unchanged after that run
C13_AutoAcceptOrOneForcedRetry ==
    /\ [][(FirstAttemptReturned /\ ClassifiedNeither(result))
            => IF DocumentChanged
               THEN spc' = "n_exit" /\ sessionErr' = NoText /\ runs' = 1
               ELSE spc' = "n_second" /\ nextPrompt' = SpecificPrompt /\ sessionErr' = NoText]_vars
    /\ []((spc = "n_second_running" /\ ClassifiedNeither(firstResult))
            => prompt = SpecificPrompt /\ runs = 2)
    /\ []((spc = "n_exit" /\ ClassifiedNeither(firstResult))
            => /\ runs <= 2
               /\ (runs = 1 => sessionErr = NoText /\ DocumentChanged)
               /\ (runs = 2 /\ ~DocumentChanged => sessionErr # NoText))

C13_Witness ==
    /\ spc = "n_exit"
    /\ ClassifiedNeither(firstResult)
    /\ runs = 2
    /\ prompt = SpecificPrompt
    /\ ~DocumentChanged
    /\ startReadme.kind = "file"
    /\ sessionErr = <<"failed to create README.md after two attempts">>

FirstWasErrorOrExhausted ==
    /\ ~firstResult.nil
    /\ \/ isTaskResultError(firstResult.FinalContent, firstResult.Conversation, TRUE)
       \/ ~firstResult.Success

\* C14: in non-interactive mode a first run whose result is a classified
\* error or a budget exhaustion makes the session fail only after a forced
\* retry has been issued
C14_FailsOnlyAfterForcedRetry ==
    (spc = "n_exit" /\ sessionErr # NoText /\ FirstWasErrorOrExhausted) => runs >= 2

\* C14 as amended: a first result classified as an error (a budget exhaustion
\* classified so included) makes the session fail at once with "LLM agent
\* encountered an error", no retry issued; the second attempt is only started
\* on a first result that is not classified as an error
C14_ClassifiedErrorFailsAtOnce ==
    /\ [][(FirstAttemptReturned /\ ~isTokenLimitMessage(result.FinalContent)
              /\ isTaskResultError(result.FinalContent, result.Conversation, TRUE))
            => /\ spc' = "n_exit"
               /\ sessionErr' = <<"LLM agent encountered an error:">> \o result.FinalContent
               /\ runs' = 1]_vars
    /\ [](exitVia = "classified error" => runs = 1 /\ spc = "n_exit")
    /\ [](spc \in {"n_second", "n_second_running"}
            => ~isTaskResultError(firstResult.FinalContent, firstResult.Conversation, TRUE))

C14_Witness ==
    /\ spc = "n_exit"
    /\ exitVia = "classified error"
    /\ ~firstResult.nil
    /\ ~firstResult.Success
    /\ runs = 1

RunReturned ==
    /\ spc = "running"
    /\ apc = "done"
    /\ err = NoText

\* C15: in interactive mode a run classified as an error leads to the
\* "Try again" / "Exit" prompt and not to the end of the session; "Try again"
\* starts a new run with the retry prompt, and after "Exit" the README path is
\* back in the state the session found
C15_ErrorOffersChoice ==
    /\ [][(RunReturned /\ ~isTokenLimitMessage(result.FinalContent)
              /\ isTaskResultError(result.FinalContent, result.Conversation, TRUE))
            => spc' = "askError" /\ fs' = fs]_vars
    /\ [][spc = "askError"
            => \/ spc' = "askError"
               \/ spc' = "run" /\ fs' = fs
                    /\ nextPrompt' = buildRevisionPrompt(fs, ErrorRetryChanges)
               \/ spc' = "exit" /\ exitVia' = "Exit" /\ fs'[ReadmePath] = startReadme
               \/ spc' = "exit" /\ exitVia' = "prompt failed"]_vars
    /\ [](exitVia = "Exit" => sessionErr = <<"user chose to exit due to LLM error">>)

UserPrompts == {"askError", "askAction", "askContinue", "askChanges"}

\* C16: in interactive mode, a run whose final answer is classified as
\* token-limit is followed by the next run on the section-based prompt: no
\* prompt is shown to the user in between and the document is neither
\* restored nor otherwise touched
C16_TokenLimitLoopsWithoutUser ==
    /\ [][(RunReturned /\ result.FinalContent \in LimitTexts)
            => /\ spc' = "run"
               /\ Len(nextPrompt') >= 1
               /\ nextPrompt'[1] = "limit_hit_prompt.txt"
               /\ fs' = fs
               /\ exitVia' = "none"]_vars
    /\ [][spc = "run"
            => \/ spc' = "run"
               \/ spc' = "running" /\ prompt' = nextPrompt /\ fs' = fs]_vars
    /\ [](spc \in UserPrompts => result.FinalContent \notin LimitTexts)

C16_Witness ==
    /\ spc = "running"
    /\ runs = 2
    /\ Len(prompt) >= 1
    /\ prompt[1] = "limit_hit_prompt.txt"
    /\ startReadme = Absent
    /\ fs[ReadmePath] = FileNode(NewContent)

\* the step is a write_file call that reported success
WroteSuccessfully ==
    /\ Len(toolLog') = Len(toolLog) + 1
    /\ toolLog'[Len(toolLog')].call.Name = "write_file"
    /\ toolLog'[Len(toolLog')].out.Content # NoText

\* C17: "Accept and finalize" on a changed document ends the session with
\* success and leaves the document as the last successful write_file left it,
\* a write replacing the whole file: after a write of "# X" and Accept the
\* target holds exactly "# X", whether or not it held something before
C17_AcceptKeepsLastWrite ==
    /\ [][WroteSuccessfully
            => LET call == toolLog'[Len(toolLog')].call IN
               fs'[Clean(PackageRoot \o call.Arguments.path)] = FileNode(call.Arguments.content)]_vars
    /\ [][(spc = "askAction" /\ readmeUpdated /\ exitVia' = "Accept and finalize")
            => spc' = "exit" /\ fs' = fs /\ sessionErr' = NoText]_vars
    /\ []((spc = "exit" /\ exitVia = "Accept and finalize")
            => fs[ReadmePath] = FileNode(<<"# X">>) /\ sessionErr = NoText)

C17_Witness ==
    /\ spc = "exit"
    /\ exitVia = "Accept and finalize"
    /\ startReadme = Absent
    /\ runs = 1
    /\ fs[ReadmePath] = FileNode(<<"# X">>)

(***************************************************************************)
(* The classifier applied on its own to transcripts built entry by entry   *)
(***************************************************************************)
progVars == <<fs, agentVars, spc, originalReadmeContent, nextPrompt, readmeUpdated, exitVia,
              sessionErr, startReadme, firstResult, ioVars>>

\* the program before any session, nothing applied yet
IdleProgram ==
    /\ anim = NoAnimation
    /\ fs = BaseFs
    /\ tools = PackageTools
    /\ provider = Provider("Amazon Bedrock", FALSE, NoResponse)
    /\ InitAgentCommon
    /\ spc = "none"
    /\ originalReadmeContent = NoOriginal
    /\ nextPrompt = NoText
    /\ readmeUpdated = FALSE
    /\ exitVia = "none"
    /\ sessionErr = NoText
    /\ startReadme = Absent
    /\ firstResult = NoResult
    /\ printed = {}
    /\ cancelled = FALSE
    /\ fnRet = NoRet

\* transcript entries as ExecuteTask writes them: a successful write, a denied
\* write, a handler that returned a Go error, a failed read (no marker), and
\* an assistant entry that uses the words of a success marker
TranscriptEntries ==
    {ToolResultEntry(ToolCall("write_file", Args(ReadmeRel, NewContent)),
                     ResultContent(<<"Successfully wrote", FmtInt(1), "bytes to">> \o ReadmeRel)),
     ToolResultEntry(ToolCall("write_file", Args(<<"notes.md">>, NewContent)),
                     ResultError(DeniedWriteText)),
     ToolResultEntry(ToolCall("broken_tool", Args(NoText, NoText)),
                     GoError(<<"file access denied">>)),
     ToolResultEntry(ToolCall("read_file", Args(<<"missing.md">>, NoText)),
                     ResultError(<<"failed to read file:", "open">>)),
     Entry("assistant", <<"completed successfully">>)}

ClassifyContents ==
    {<<"Sorry,", "I failed to", "write the file">>, <<"I FAILED TO">>, <<"Done">>,
     <<"I failed to", "due to length constraints">>}

InitClassify ==
    /\ IdleProgram
    /\ fnCall = [fn |-> "isTaskResultError", content |-> NoText, conv |-> <<>>]

\* one more entry in the transcript that will be classified
AppendEntry ==
    /\ ~fnRet.returned
    /\ Len(fnCall.conv) < MaxEntries
    /\ \E e \in TranscriptEntries : fnCall' = [fnCall EXCEPT !.conv = Append(@, e)]
    /\ UNCHANGED <<progVars, fnRet>>

\* isTaskResultError(content, conversation) on the transcript built so far
ApplyIsTaskResultError ==
    /\ ~fnRet.returned
    /\ \E c \in ClassifyContents :
          /\ fnCall' = [fnCall EXCEPT !.content = c]
          /\ fnRet' = [returned |-> TRUE, value |-> isTaskResultError(c, fnCall.conv, TRUE)]
    /\ UNCHANGED progVars

NextClassify == AppendEntry \/ ApplyIsTaskResultError

SpecClassify == InitClassify /\ [][NextClassify]_vars

SuccessWords == {"Successfully wrote", "completed successfully", "[check mark] success"}

FailureWords == {"failed:", "access denied", "file access denied", "[cross mark] error"}

HasSuccessMarker(e) ==
    e.Type = "tool_result" /\ \E k \in 1..Len(e.Content) : e.Content[k] \in SuccessWords

HasFailureMarker(e) ==
    e.Type = "tool_result" /\ \E k \in 1..Len(e.Content) : e.Content[k] \in FailureWords

LastFive(conv) == {i \in 1..Len(conv) : i > Len(conv) - 5}

SuccessMoreRecent(conv) ==
    \E i \in LastFive(conv) :
        /\ HasSuccessMarker(conv[i])
        /\ \A j \in LastFive(conv) : j > i => ~HasFailureMarker(conv[j])

SaysIFailedTo(content) ==
    /\ \E k \in 1..Len(content) : content[k] \in {"I failed to", "I FAILED TO"}
    /\ \A k \in 1..Len(content) : content[k] # "due to length constraints"

\* C12: for a text with "I failed to" and no token-limit phrase,
\* isTaskResultError is false exactly when, among the last five transcript
\* entries, a tool_result with a success marker comes after every tool_result
\* with a failure marker; otherwise it is true
C12_FailedToUnlessRecentSuccess ==
    (fnRet.returned /\ fnCall.fn = "isTaskResultError" /\ SaysIFailedTo(fnCall.content))
        => (fnRet.value <=> ~SuccessMoreRecent(fnCall.conv))

C12_Witness ==
    /\ fnRet.returned
    /\ fnCall.fn = "isTaskResultError"
    /\ SaysIFailedTo(fnCall.content)
    /\ ~fnRet.value
    /\ Len(fnCall.conv) = 6
    /\ HasFailureMarker(fnCall.conv[3])
    /\ HasSuccessMarker(fnCall.conv[4])
    /\ ~HasSuccessMarker(fnCall.conv[5])
    /\ ~HasSuccessMarker(fnCall.conv[6])

(***************************************************************************)
(* extractPreservedSections and validatePreservedSections applied to       *)
(* documents typed token by token                                          *)
(***************************************************************************)
\* the orders in which ranging over a map may yield the warnings
Orderings(set) ==
    {seq \in [1..Cardinality(set) -> set] : \A a, b \in DOMAIN seq : seq[a] = seq[b] => a = b}

DocTokens ==
    {"<!-- HUMAN-EDITED START -->", "<!-- HUMAN-EDITED END -->",
     "<!-- PRESERVE START -->", "<!-- PRESERVE END -->", "KEEP ME"}

\* what a revision may make of a document: the same text, nothing, a rewrite,
\* one token dropped or rewritten, a new introduction in front
Revisions(doc) ==
    {doc, <<>>, <<"rewritten">>, <<"intro">> \o doc}
    \cup {SubSeq(doc, 1, k - 1) \o SubSeq(doc, k + 1, Len(doc)) : k \in 1..Len(doc)}
    \cup {[doc EXCEPT ![k] = "rewritten"] : k \in 1..Len(doc)}

InitValidate ==
    /\ IdleProgram
    /\ fnCall = [fn |-> "validatePreservedSections", original |-> <<>>, new |-> <<>>,
                 revised |-> FALSE]

\* one more token of the original document
TypeOriginal ==
    /\ ~fnCall.revised
    /\ Len(fnCall.original) < MaxDocLen
    /\ \E tok \in DocTokens : fnCall' = [fnCall EXCEPT !.original = Append(@, tok)]
    /\ UNCHANGED <<progVars, fnRet>>

\* the new content the agent wrote
Revise ==
    /\ ~fnCall.revised
    /\ \E doc \in Revisions(fnCall.original) :
          fnCall' = [fnCall EXCEPT !.new = doc, !.revised = TRUE]
    /\ UNCHANGED <<progVars, fnRet>>

\* validatePreservedSections(original, new)
ApplyValidatePreservedSections ==
    /\ fnCall.revised
    /\ ~fnRet.returned
    /\ \E ws \in Orderings(validatePreservedSections(fnCall.original, fnCall.new)) :
          fnRet' = [returned |-> TRUE, value |-> ws]
    /\ UNCHANGED <<progVars, fnCall>>

NextValidate == TypeOriginal \/ Revise \/ ApplyValidatePreservedSections

SpecValidate == InitValidate /\ [][NextValidate]_vars

Validated == fnRet.returned /\ fnCall.fn = "validatePreservedSections"

\* how many of the returned warnings are this text
TimesWarned(text) == Cardinality({k \in 1..Len(fnRet.value) : fnRet.value[k] = text})

\* the section text occurs in doc at some position
OccursIn(doc, part) ==
    \E from \in 1..Len(doc) :
        /\ from + Len(part) - 1 <= Len(doc)
        /\ \A k \in 1..Len(part) : doc[from + k - 1] = part[k]

\* C18: validatePreservedSections returns exactly one warning for each
\* section extracted from the original whose exact text, markers included,
\* does not occur in the new content, and no other warning; the warning names
\* the marker kind and the index counted from 1 (a dropped first human-edited
\* section gives exactly the warning for HUMAN-EDITED-1)
C18_OneWarningPerMissingSection ==
    Validated =>
        /\ \A sec \in extractPreservedSections(fnCall.original) :
               TimesWarned(<<"Human-edited section '">> \o sec.key \o <<"' was not preserved">>)
                   = IF OccursIn(fnCall.new, sec.content) THEN 0 ELSE 1
        /\ \A k \in 1..Len(fnRet.value) :
               \E sec \in extractPreservedSections(fnCall.original) :
                   /\ fnRet.value[k] = <<"Human-edited section '">> \o sec.key \o <<"' was not preserved">>
                   /\ ~OccursIn(fnCall.new, sec.content)
        /\ (/\ fnCall.original = <<"<!-- HUMAN-EDITED START -->", "KEEP ME", "<!-- HUMAN-EDITED END -->">>
            /\ fnCall.new = <<"rewritten">>)
               => fnRet.value = <<(<<"Human-edited section '", "HUMAN-EDITED", "-", "1",
                                     "' was not preserved">>)>>

C18_Witness ==
    /\ Validated
    /\ fnCall.original = <<"<!-- HUMAN-EDITED START -->", "<!-- HUMAN-EDITED END -->",
                           "<!-- HUMAN-EDITED START -->", "KEEP ME", "<!-- HUMAN-EDITED END -->">>
    /\ fnCall.new = <<"<!-- HUMAN-EDITED START -->", "<!-- HUMAN-EDITED END -->",
                      "<!-- HUMAN-EDITED START -->", "rewritten", "<!-- HUMAN-EDITED END -->">>
    /\ fnRet.value = <<(<<"Human-edited section '", "HUMAN-EDITED", "-", "2",
                          "' was not preserved">>)>>

\* C19: for every document D, validatePreservedSections(D, D) returns no
\* warnings
C19_ValidateReflexive ==
    (Validated /\ fnCall.new = fnCall.original) => fnRet.value = <<>>

C19_Witness ==
    /\ Validated
    /\ fnCall.new = fnCall.original
    /\ fnCall.original = <<"KEEP ME", "<!-- PRESERVE START -->", "<!-- HUMAN-EDITED START -->",
                           "<!-- PRESERVE END -->", "<!-- HUMAN-EDITED END -->">>
    /\ fnRet.value = <<>>

(***************************************************************************)
(* Properties of the session in both modes                                 *)
(***************************************************************************)
\* what backupOriginalReadme finds at the README path when the session starts
CapturedAtStart ==
    IF startReadme.kind = "file"
    THEN [present |-> TRUE, content |-> startReadme.data]
    ELSE [present |-> FALSE, content |-> <<>>]

\* C25: the original document is captured once, at session start before the
\* first provider call, and never changed afterwards: through every run, tool
\* write, revision, retry and user action it keeps the value read at session
\* start (none when no document existed)
C25_OriginalCapturedOnce ==
    /\ [][originalReadmeContent' # originalReadmeContent
            => (spc = "start" /\ runs = 0 /\ providerCalls = 0)]_vars
    /\ [](spc # "start" => originalReadmeContent = CapturedAtStart)

\* a session that rewrote an existing document in two runs and was accepted
C25_Witness ==
    /\ spc = "exit"
    /\ exitVia = "Accept and finalize"
    /\ runs = 2
    /\ startReadme = FileNode(<<"# Old">>)
    /\ fs[ReadmePath] = FileNode(<<"# X">>)
    /\ originalReadmeContent = [present |-> TRUE, content |-> <<"# Old">>]

\* the TaskResult ExecuteTask returns when the budget is used up
IsExhaustion(r) ==
    /\ ~r.nil
    /\ ~r.Success
    /\ r.FinalContent = <<"Task did not complete within maximum iterations">>

\* C28: a TaskResult produced by budget exhaustion is always treated as an
\* error, on the path of a classified error, whatever conversation it
\* carries: the interactive mode asks "Try again" / "Exit", the
\* non-interactive mode returns a failure, and the run is never accepted as
\* completed
C28_ExhaustionIsAnError ==
    [][(apc = "done" /\ IsExhaustion(result) /\ spc' # spc)
          => /\ spc = "running" => spc' = "askError"
             /\ spc \in {"n_first_running", "n_section_running", "n_second_running"}
                   => (spc' = "n_exit" /\ sessionErr' # <<>>)]_vars

(***************************************************************************)
(* The interactive session reviewing a document with a preserved section   *)
(***************************************************************************)
PreservedDoc ==
    <<"<!-- HUMAN-EDITED START -->", "KEEP ME", "<!-- HUMAN-EDITED END -->">>

\* the agent may empty the README, rewrite it with or without the preserved
\* section, or put a directory in its place
ReviewCalls ==
    {ToolCall("write_file", Args(ReadmeRel, c)) :
        c \in {NoText, NewContent, PreservedDoc, NewContent \o PreservedDoc}}
    \cup {ToolCall("write_file", Args(ReadmeRel \o <<"notes.md">>, NewContent))}

ReviewRepertoire ==
    {LLMResponse(NoText, tc, FALSE) : tc \in SeqsUpTo(ReviewCalls, MaxCalls) \ {<<>>}}
    \cup {FinalResponse}

InitReview ==
    /\ fs \in {BaseFs, FsWithReadme(PreservedDoc)}
    /\ provider \in {Provider("Amazon Bedrock", FALSE, NoResponse),
                     Provider("Amazon Bedrock", TRUE, StallResponse)}
    /\ NewDocumentationAgent

NextReview ==
    \/ UpdateDocumentation
    \/ ExecuteTaskWithLogging
    \/ CallProvider
    \/ ProviderResponds(ReviewRepertoire)
    \/ ProviderFails
    \/ ExecuteToolCall
    \/ BudgetExhausted
    \/ AfterRun
    \/ AnswerError
    \/ AnswerAction
    \/ AnswerContinue
    \/ AnswerChanges

SpecReview == InitReview /\ [][NextReview]_vars

\* C26: in interactive mode, when a run left the document changed, the
\* preserved-section violations have been validated and shown as warnings
\* before the user is asked to choose between Accept, Request changes and
\* Cancel
C26_WarningsBeforeChoice ==
    (spc = "askAction" /\ readmeUpdated) => AcceptWarnings(fs, originalReadmeContent) \subseteq printed

\* C30: checkReadmeUpdated is true exactly when the README exists, can be
\* read and either no original was captured and the content is not empty, or
\* an original was captured and the content differs from it; what
\* runInteractiveMode keeps as readmeUpdated is that, for a README that is not
\* empty
C30_UpdatedIffChanged ==
    LET node == fs[<<"pkg", "_dev", "build", "docs", "README.md">>]
        o == originalReadmeContent
        changed == /\ node.kind = "file"
                   /\ \/ ~o.present /\ node.data # <<>>
                      \/ o.present /\ node.data # o.content
    IN /\ spc # "start" => checkReadmeUpdated(fs, o) = changed
       /\ spc = "askAction" => readmeUpdated = (changed /\ node.data # <<>>)

\* a README the agent created empty, with no original, looked at after the run
C30_Witness ==
    /\ spc = "askAction"
    /\ ~originalReadmeContent.present
    /\ fs[ReadmePath] = FileNode(<<>>)
    /\ ~readmeUpdated

(***************************************************************************)
(* ExecuteTask under a context that may be cancelled                       *)
(***************************************************************************)
CancelCalls ==
    {ToolCall("write_file", Args(ReadmeRel, NewContent)),
     ToolCall("read_file", Args(<<"manifest.yml">>, NoText))}

CancelRepertoire ==
    {LLMResponse(NoText, tc, FALSE) : tc \in SeqsUpTo(CancelCalls, MaxCalls) \ {<<>>}}
    \cup {FinalResponse, StallResponse}

InitCancel ==
    /\ fs = BaseFs
    /\ tools = PackageTools
    /\ provider \in {Provider("Amazon Bedrock", FALSE, NoResponse),
                     Provider("Amazon Bedrock", TRUE, StallResponse),
                     Provider("Amazon Bedrock", TRUE, RewriteResponse)}
    /\ InitAgentCommon
    /\ InitNoSession

\* the caller cancels the context, before a run or at any point of one
CancelContext ==
    /\ ~cancelled
    /\ cancelled' = TRUE
    /\ UNCHANGED <<fs, agentVars, spc, originalReadmeContent, nextPrompt, readmeUpdated,
                   exitVia, sessionErr, startReadme, firstResult, fnCall, fnRet, printed,
                   anim>>

NextCancel ==
    \/ CallExecuteTaskOnPackage
    \/ CallProvider
    \/ ProviderResponds(CancelRepertoire)
    \/ ProviderFails
    \/ ExecuteToolCall
    \/ BudgetExhausted
    \/ CancelContext

SpecCancel == InitCancel /\ [][NextCancel]_vars

\* a step of the running ExecuteTask, not the entry of a new call
SameRun == runs' = runs

\* C27 as stated: once the context is cancelled, before or during a run,
\* ExecuteTask executes no further tool call and returns no TaskResult; it
\* returns the cancellation as an error
C27_CancelStopsTheLoop ==
    [][(cancelled /\ SameRun)
          => /\ toolLog' = toolLog
             /\ result'.nil
             /\ apc' = "done" => err' # <<>>]_vars

\* C27 amended: ExecuteTask does not look at the context itself; the
\* cancellation takes effect at the provider call. A call made after the
\* cancellation, or in flight when it comes, to a provider that honours the
\* context returns an error, and ExecuteTask surfaces it as its error and
\* stops: it returns no TaskResult, does not retry, and no provider call or
\* tool call of that run follows. Tool calls of a response received before
\* that are still executed
C27_CancelSurfacesAtProviderCall ==
    /\ [][(cancelled /\ ~provider.scripted /\ apc = "provider" /\ SameRun)
            => /\ apc' = "done"
               /\ err' = <<"failed to get LLM response:", "context canceled">>
               /\ result'.nil
               /\ toolLog' = toolLog
               /\ providerCalls' = providerCalls
               /\ iter' = iter
               /\ fs' = fs]_vars
    /\ [][(cancelled /\ apc = "done" /\ err # <<>> /\ SameRun)
            => /\ toolLog' = toolLog
               /\ providerCalls' = providerCalls
               /\ apc' = "done"
               /\ err' = err
               /\ result'.nil]_vars

\* a run cancelled while it executed the tool calls of a response: both calls
\* ran, the next provider call failed and the error came back
C27_Witness ==
    /\ cancelled
    /\ ~provider.scripted
    /\ apc = "done"
    /\ err = <<"failed to get LLM response:", "context canceled">>
    /\ result.nil
    /\ Len(toolLog) = 2
    /\ providerCalls = 2

(***************************************************************************)
(* isErrorResponse applied on its own to texts typed phrase by phrase      *)
(***************************************************************************)
\* the phrases of the error-detection tests, and a length-limit phrase
ResponsePhrases ==
    {"I encountered an error", "no errors encountered", "I'm unable to complete",
     "I FAILED TO", "SOMETHING WENT WRONG",
     "Task did not complete within maximum iterations", "due to length constraints"}

InitErrorResponse ==
    /\ IdleProgram
    /\ fnCall = [fn |-> "isErrorResponse", content |-> <<>>]

\* one more phrase of the text
TypePhrase ==
    /\ ~fnRet.returned
    /\ Len(fnCall.content) < MaxDocLen
    /\ \E ph \in ResponsePhrases : fnCall' = [fnCall EXCEPT !.content = Append(@, ph)]
    /\ UNCHANGED <<progVars, fnRet>>

\* isErrorResponse(content)
ApplyIsErrorResponse ==
    /\ ~fnRet.returned
    /\ fnRet' = [returned |-> TRUE, value |-> isErrorResponse(fnCall.content)]
    /\ UNCHANGED <<progVars, fnCall>>

NextErrorResponse == TypePhrase \/ ApplyIsErrorResponse

SpecErrorResponse == InitErrorResponse /\ [][NextErrorResponse]_vars

\* the phrases that make a text an error, in the letter cases typed
FailurePhrases ==
    {"I'm unable to complete", "I FAILED TO", "SOMETHING WENT WRONG",
     "Task did not complete within maximum iterations"}

\* C29: isErrorResponse(text) is false for a text whose only failure-like
\* phrase is the narration 'I encountered an error', true in any letter case
\* for a text containing 'I'm unable to complete', 'I failed to', 'Something
\* went wrong' or the iteration-exhaustion message, and false for a text with
\* no failure phrase
C29_NarrationIsNoError ==
    (fnRet.returned /\ fnCall.fn = "isErrorResponse")
        => fnRet.value = (\E k \in 1..Len(fnCall.content) : fnCall.content[k] \in FailurePhrases)

(***************************************************************************)
(* extractPreservedSections applied on its own to documents typed token by *)
(* token                                                                   *)
(***************************************************************************)
InitExtract ==
    /\ IdleProgram
    /\ fnCall = [fn |-> "extractPreservedSections", original |-> <<>>, new |-> <<>>,
                 revised |-> FALSE]

\* extractPreservedSections(content) on the document typed so far
ApplyExtractPreservedSections ==
    /\ ~fnCall.revised
    /\ ~fnRet.returned
    /\ fnCall' = [fnCall EXCEPT !.revised = TRUE]
    /\ fnRet' = [returned |-> TRUE, value |-> extractPreservedSections(fnCall.original)]
    /\ UNCHANGED progVars

NextExtract == TypeOriginal \/ ApplyExtractPreservedSections

SpecExtract == InitExtract /\ [][NextExtract]_vars

Extracted == fnRet.returned /\ fnCall.fn = "extractPreservedSections"

\* the two marker kinds: start marker, end marker, key prefix
Kinds ==
    {<<"<!-- HUMAN-EDITED START -->", "<!-- HUMAN-EDITED END -->", "HUMAN-EDITED">>,
     <<"<!-- PRESERVE START -->", "<!-- PRESERVE END -->", "PRESERVE">>}

\* the first end marker of the kind at or after position s, 0 when none
FirstEndAfter(doc, kind, s) ==
    IF \E k \in s..Len(doc) : doc[k] = kind[2]
    THEN CHOOSE k \in s..Len(doc) :
            doc[k] = kind[2] /\ \A j \in s..(k - 1) : doc[j] # kind[2]
    ELSE 0

\* the positions where a span of the kind starts: a start marker followed by
\* an end marker, with no other start marker of the kind between the last end
\* marker before it (or the beginning) and itself
SpanStarts(doc, kind) ==
    {s \in 1..Len(doc) :
        /\ doc[s] = kind[1]
        /\ FirstEndAfter(doc, kind, s) # 0
        /\ \A q \in 1..(s - 1) :
              doc[q] = kind[1] => \E e \in (q + 1)..(s - 1) : doc[e] = kind[2]}

Ordinal(n) == <<"1", "2", "3", "4">>[n]

\* C31: extractPreservedSections returns, for each marker kind, the
\* non-overlapping spans from a start marker to the first end marker after it,
\* both included, keyed <KIND>-<n> with n counted from 1 in document order
\* for the kind; a start marker with no end marker after it yields no span and
\* ends the extraction for its kind
C31_SpansPerKindInOrder ==
    Extracted =>
        LET doc == fnCall.original IN
        /\ fnRet.value =
              {[key |-> <<kind[3], "-",
                          Ordinal(Cardinality({q \in SpanStarts(doc, kind) : q <= s}))>>,
                content |-> SubSeq(doc, s, FirstEndAfter(doc, kind, s))] :
                  <<kind, s>> \in {ks \in Kinds \X (1..Len(doc)) : ks[2] \in SpanStarts(doc, ks[1])}}
        /\ \A kind \in Kinds : \A s, t \in SpanStarts(doc, kind) :
              s < t => FirstEndAfter(doc, kind, s) < t
        /\ \A kind \in Kinds : \A s \in 1..Len(doc) :
              (doc[s] = kind[1] /\ FirstEndAfter(doc, kind, s) = 0)
                  => \A t \in SpanStarts(doc, kind) : t < s

\* two human-edited spans, the second one empty, and a start marker left open
C31_Witness ==
    /\ Extracted
    /\ fnCall.original = <<"<!-- HUMAN-EDITED START -->", "KEEP ME", "<!-- HUMAN-EDITED END -->",
                           "<!-- PRESERVE START -->", "<!-- HUMAN-EDITED START -->">>
    /\ fnRet.value = {[key |-> <<"HUMAN-EDITED", "-", "1">>,
                       content |-> <<"<!-- HUMAN-EDITED START -->", "KEEP ME",
                                     "<!-- HUMAN-EDITED END -->">>]}

(***************************************************************************)
(* GeminiProvider.GenerateResponse: the conversion of the decoded API      *)
(* response, applied to responses built part by part                       *)
(***************************************************************************)
MaxParts == 2

MalformedCallText ==
    <<"I encountered an error", "while trying to call a function. Let me try a different approach.">>

MaxTokensText ==
    <<"I reached the maximum response length", ". Please try breaking this into smaller tasks.">>

SafetyText ==
    <<"My response was filtered due to safety policies", ". Please rephrase your request.">>

RecitationText ==
    <<"My response was filtered due to potential copyright issues", ". Please rephrase your request.">>

\* a part of a candidate: text, a function call, or both
Part(text, hasCall, name) == [Text |-> text, hasCall |-> hasCall, Name |-> name]

RECURSIVE FunctionCallsOf(_)
FunctionCallsOf(parts) ==
    IF parts = <<>> THEN <<>>
    ELSE (IF Head(parts).hasCall
          THEN <<ToolCall(Head(parts).Name, Args(<<>>, NoText))>> ELSE <<>>)
         \o FunctionCallsOf(Tail(parts))

TextParts(parts) == SelectSeq(parts, LAMBDA pt : pt.Text # NoText)

\* the switch on candidate.FinishReason: the finished flag and the content
\* put in place of the model's text
FinishReasonCase(reason) ==
    CASE reason = "STOP" -> [Finished |-> TRUE, Content |-> NoText]
      [] reason = "MALFORMED_FUNCTION_CALL" -> [Finished |-> TRUE, Content |-> MalformedCallText]
      [] reason = "MAX_TOKENS" -> [Finished |-> TRUE, Content |-> MaxTokensText]
      [] reason = "SAFETY" -> [Finished |-> TRUE, Content |-> SafetyText]
      [] reason = "RECITATION" -> [Finished |-> TRUE, Content |-> RecitationText]
      [] reason = "" -> [Finished |-> FALSE, Content |-> NoText]
      [] OTHER -> [Finished |-> TRUE, Content |-> NoText]

\* the LLMResponse built from the decoded response
GeminiConvert(candidates) ==
    IF Len(candidates) = 0 THEN LLMResponse(NoText, <<>>, FALSE)
    ELSE LET candidate == candidates[1]
             byReason == FinishReasonCase(candidate.FinishReason)
             texts == TextParts(candidate.Parts)
         IN LLMResponse(IF Len(texts) > 0 /\ byReason.Content = NoText
                        THEN texts[1].Text ELSE byReason.Content,
                        FunctionCallsOf(candidate.Parts),
                        byReason.Finished)

FinishReasons ==
    {"STOP", "MALFORMED_FUNCTION_CALL", "MAX_TOKENS", "SAFETY", "RECITATION", "", "UNKNOWN_REASON"}

PartChoices ==
    {Part(<<"Original response text">>, FALSE, ""), Part(<<"More text">>, FALSE, ""),
     Part(NoText, TRUE, "read_file"), Part(<<"Original response text">>, TRUE, "list_directory")}

InitGemini ==
    /\ IdleProgram
    /\ \E n \in 0..1, reason \in FinishReasons :
          fnCall = [fn |-> "GenerateResponse",
                    candidates |-> [k \in 1..n |-> [FinishReason |-> reason, Parts |-> <<>>]]]

\* one more part in the first candidate of the API response
AddPart ==
    /\ ~fnRet.returned
    /\ Len(fnCall.candidates) = 1
    /\ Len(fnCall.candidates[1].Parts) < MaxParts
    /\ \E pt \in PartChoices :
          fnCall' = [fnCall EXCEPT !.candidates[1].Parts = Append(@, pt)]
    /\ UNCHANGED <<progVars, fnRet>>

\* the response decoded: GenerateResponse converts it and returns
ApplyGeminiConvert ==
    /\ ~fnRet.returned
    /\ fnRet' = [returned |-> TRUE, value |-> GeminiConvert(fnCall.candidates)]
    /\ UNCHANGED <<progVars, fnCall>>

NextGemini == AddPart \/ ApplyGeminiConvert

SpecGemini == InitGemini /\ [][NextGemini]_vars

\* the first text of the candidate, empty when it has none
OriginalText(parts) ==
    IF \E k \in 1..Len(parts) : parts[k].Text # <<>>
    THEN parts[CHOOSE k \in 1..Len(parts) :
                  parts[k].Text # <<>> /\ \A j \in 1..(k - 1) : parts[j].Text = <<>>].Text
    ELSE <<>>

\* C32: the finish reason of the first candidate decides the response: STOP
\* gives finished; MALFORMED_FUNCTION_CALL gives not finished and no
\* substituted error text; MAX_TOKENS gives finished with 'I reached the
\* maximum response length'; SAFETY and RECITATION give finished with their
\* filter messages; an empty reason gives not finished with the original text
\* kept; any other reason gives finished
C32_FinishReasonMapping ==
    (fnRet.returned /\ fnCall.fn = "GenerateResponse" /\ Len(fnCall.candidates) = 1)
        => LET reason == fnCall.candidates[1].FinishReason
               original == OriginalText(fnCall.candidates[1].Parts)
               r == fnRet.value
           IN CASE reason = "STOP" -> r.Finished
                [] reason = "MALFORMED_FUNCTION_CALL" -> ~r.Finished /\ r.Content = original
                [] reason = "MAX_TOKENS" ->
                      r.Finished /\ r.Content[1] = "I reached the maximum response length"
                [] reason = "SAFETY" ->
                      r.Finished
                      /\ r.Content[1] = "My response was filtered due to safety policies"
                [] reason = "RECITATION" ->
                      r.Finished
                      /\ r.Content[1] = "My response was filtered due to potential copyright issues"
                [] reason = "" -> ~r.Finished /\ r.Content = original
                [] OTHER -> r.Finished

(***************************************************************************)
(* The transcript of one ExecuteTask invocation                            *)
(***************************************************************************)
\* the entries a step added at the end of the transcript
Added == SubSeq(conversation', Len(conversation) + 1, Len(conversation'))

IsPrefixOf(a, b) == Len(a) <= Len(b) /\ SubSeq(b, 1, Len(a)) = a

\* C33: within one ExecuteTask invocation the transcript starts with exactly
\* one user entry holding the task prompt and nothing of an earlier
\* invocation, it only grows at its end, each provider response appends
\* exactly one assistant entry with the raw content (empty or not) before any
\* tool_result entry of that response, and no entry is removed or rewritten
C33_TranscriptAppendOnly ==
    /\ [][IF runs' # runs
          THEN conversation' = <<[Type |-> "user", Content |-> prompt']>>
          ELSE /\ IsPrefixOf(conversation, conversation')
               /\ responses' # responses =>
                     /\ Len(Added) >= 1
                     /\ Added[1] = [Type |-> "assistant", Content |-> response'.Content]
                     /\ \A k \in 2..Len(Added) : Added[k].Type \notin {"assistant", "tool_result"}
               /\ responses' = responses =>
                     \A k \in 1..Len(Added) : Added[k].Type = "tool_result"]_vars
    /\ [](apc # "idle" =>
            /\ Len(conversation) >= 1
            /\ conversation[1] = [Type |-> "user", Content |-> prompt]
            /\ Len(EntriesOfType(conversation, "assistant")) = Len(responses)
            /\ \A k \in 1..Len(responses) :
                  EntriesOfType(conversation, "assistant")[k].Content = responses[k].Content
            /\ Len(conversation) >= 2 => conversation[2].Type = "assistant")

\* a second invocation whose first response has an empty content and a tool
\* call: the transcript holds the prompt, the empty assistant entry and the
\* tool result, and nothing of the first invocation
C33_Witness ==
    /\ runs = 2
    /\ Returned
    /\ Len(conversation) >= 3
    /\ conversation[1] = [Type |-> "user", Content |-> prompt]
    /\ conversation[2] = [Type |-> "assistant", Content |-> NoText]
    /\ conversation[3].Type = "tool_result"

\* C34: a response without tool calls and with finished=false makes the loop
\* append exactly one user nudge entry after the assistant entry and go on
\* to the next iteration; a nudge entry is appended in no other case
C34_NudgeExactlyOnStall ==
    /\ [][runs' = runs =>
            IF /\ responses' # responses
               /\ response'.ToolCalls = <<>>
               /\ ~response'.Finished
            THEN /\ Added = <<[Type |-> "assistant", Content |-> response'.Content],
                              [Type |-> "user", Content |-> NudgeText]>>
                 /\ iter' = iter + 1
                 /\ apc' = "loop"
            ELSE \A k \in 1..Len(Added) : Added[k].Type # "user"]_vars
    /\ [](apc # "idle" =>
            Len(EntriesOfType(conversation, "user"))
               = 1 + Len(SelectSeq(responses, IsStall)))

\* a nudged run that then went on: the nudge follows the assistant entry and
\* the next response was asked for and finished the task
C34_Witness ==
    /\ Returned /\ ~result.nil /\ result.Success
    /\ Len(responses) = 2
    /\ IsStall(responses[1])
    /\ Len(conversation) = 4
    /\ conversation[2].Type = "assistant"
    /\ conversation[3] = [Type |-> "user", Content |-> NudgeText]
    /\ providerCalls = 2

(***************************************************************************)
(* The most recent tool failure and the suppression of false positives     *)
(***************************************************************************)
\* a tool_result entry that records a failed call as ExecuteTask writes it
RecordsFailedCall(e) ==
    /\ e.Type = "tool_result"
    /\ Len(e.Content) >= 3
    /\ e.Content[1] = "Tool"
    /\ e.Content[3] \in {"failed:", "error:"}

\* the most recent tool_result entry among the last five entries records a
\* failed call
MostRecentToolResultFailed(conv) ==
    \E i \in LastFive(conv) :
        /\ RecordsFailedCall(conv[i])
        /\ \A j \in LastFive(conv) : j > i => conv[j].Type # "tool_result"

\* C35: when the most recent tool_result entry among the last five records a
\* failed tool call ("Tool <name> failed: <err>" or "Tool <name> error: <msg>"),
\* a final text with an error phrase (and no token-limit phrase) is classified
\* as an error, even when an earlier entry of the window has a success marker
C35_RecentFailureStands ==
    (/\ fnRet.returned
     /\ fnCall.fn = "isTaskResultError"
     /\ SaysIFailedTo(fnCall.content)
     /\ MostRecentToolResultFailed(fnCall.conv))
        => fnRet.value

(***************************************************************************)
(* runInteractiveMode without a bound on the number of runs                *)
(***************************************************************************)
\* executeTaskWithLogging once the run counter of the model stands at
\* MaxRuns: the same entry into ExecuteTask, the counter left where it is
ExecuteTaskWithLoggingAgain ==
    /\ spc = "run"
    /\ apc \in {"idle", "done"}
    /\ runs = MaxRuns
    /\ prompt' = nextPrompt
    /\ conversation' = <<Entry("user", nextPrompt)>>
    /\ iter' = 0
    /\ apc' = "loop"
    /\ response' = NoResponse
    /\ responses' = <<>>
    /\ pending' = <<>>
    /\ result' = NoResult
    /\ err' = NoText
    /\ providerCalls' = 0
    /\ fullPrompt' = NoText
    /\ toolLog' = <<>>
    /\ runCalls' = 0
    /\ nudges' = 0
    /\ spc' = "running"
    /\ UNCHANGED <<fs, provider, tools, runs, originalReadmeContent, nextPrompt, readmeUpdated,
                   exitVia, sessionErr, startReadme, auxVars>>

NextSessionLive ==
    \/ UpdateDocumentation
    \/ ExecuteTaskWithLogging
    \/ ExecuteTaskWithLoggingAgain
    \/ CallProvider
    \/ ProviderResponds(SessionRepertoire)
    \/ ProviderFails
    \/ ExecuteToolCall
    \/ BudgetExhausted
    \/ AfterRun
    \/ AnswerError
    \/ AnswerAction
    \/ AnswerContinue
    \/ AnswerChanges

\* the program runs on whenever it can, every provider call returns and the
\* user answers every prompt
SpecSessionLive == InitSession /\ [][NextSessionLive]_vars /\ WF_vars(NextSessionLive)

\* C36: an interactive session in which every agent run returns and the user
\* answers every prompt eventually shows the user a decision or ends,
\* whatever the provider answers: the controller never goes on starting agent
\* runs for ever on its own
C36_SessionReachesUserOrEnds ==
    [](spc \in {"run", "running"} => <>(spc \in UserPrompts \/ spc = "exit"))

(***************************************************************************)
(* "Request changes" answered with nothing                                 *)
(***************************************************************************)
\* C37: in interactive mode, "Request changes" followed by a cancelled input
\* or a blank feedback leads back to the Accept / Request changes / Cancel
\* decision with no provider call and with the current prompt unchanged; the
\* only other ways out of the feedback question are a failed prompt and a
\* revision prompt built from feedback that is not blank
C37_BlankFeedbackReturnsToDecision ==
    [][spc = "askChanges" =>
          \/ spc' = "exit" /\ exitVia' = "prompt failed"
          \/ /\ spc' = "run"
             /\ \E input \in ChangeInputs :
                   /\ input.kind = "text"
                   /\ ~IsBlank(input.text)
                   /\ nextPrompt' = buildRevisionPrompt(fs, input.text)
          \/ /\ spc' = "askAction"
             /\ nextPrompt' = nextPrompt
             /\ providerCalls' = providerCalls
             /\ apc' = apc]_vars

(***************************************************************************)
(* Sessions that start on a document that cannot be read                   *)
(***************************************************************************)
\* the package with a documentation source the process may not read
FsWithLockedReadme ==
    [q \in Locations |->
        IF q = ReadmePath THEN LockedNode(<<"# Old">>) ELSE FsWithReadme(<<"# Old">>)[q]]

InitBackup ==
    /\ fs \in {FsWithReadme(<<"# Old">>), FsWithLockedReadme}
    /\ provider \in {Provider("Amazon Bedrock", FALSE, NoResponse),
                     Provider("Amazon Bedrock", TRUE, StallResponse)}
    /\ NewDocumentationAgent

SpecBackup == InitBackup /\ [][NextSession]_vars

\* C38: a document that exists when the session starts still exists in every
\* terminal state reached through Cancel, Exit or "Exit anyway", also when
\* the backup at the start could stat the file and failed to read it
C38_ExistingDocumentNeverDeleted ==
    (/\ spc = "exit"
     /\ exitVia \in {"Cancel", "Exit", "Exit anyway"}
     /\ startReadme.kind # "none")
        => fs[ReadmePath].kind # "none"

(***************************************************************************)
(* The document after a session that returned an error                     *)
(***************************************************************************)
SessionEnded == spc \in {"exit", "n_exit"}

\* the error returns that follow an agent run: a provider error in either
\* mode, a classified error in non-interactive mode, a manifest that cannot
\* be read for the token-limit prompt
FailedAfterRun ==
    /\ SessionEnded
    /\ runs >= 1
    /\ exitVia \in {"agent error", "classified error", "manifest"}

\* C39: whenever UpdateDocumentation returns an error after at least one
\* agent run, the target document is in its session-start state (original
\* content, or absent if none existed)
C39_FailedSessionLeavesStartState ==
    FailedAfterRun => fs[ReadmePath] = startReadme

\* C39 as amended: on these error returns nothing is restored; the step that
\* returns the error leaves the filesystem as the agent's tool calls left it,
\* and within a session only tool calls and the restore of Cancel, Exit and
\* "Exit anyway" change the filesystem
C39_FailedSessionRestoresNothing ==
    /\ [][(~SessionEnded /\ FailedAfterRun') => fs' = fs]_vars
    /\ [][fs' # fs
            => \/ toolLog' # toolLog /\ Len(toolLog') = Len(toolLog) + 1
               \/ /\ spc' = "exit"
                  /\ exitVia' \in {"Cancel", "Exit", "Exit anyway"}]_vars

\* a provider error after a run step that rewrote an existing document: the
\* session has failed and the new content is what is left
C39_Witness ==
    /\ FailedAfterRun
    /\ exitVia = "agent error"
    /\ startReadme = [kind |-> "file", data |-> <<"# Old">>]
    /\ fs[ReadmePath] = [kind |-> "file", data |-> NewContent]

(***************************************************************************)
(* AnimatedStatus: one caller and the animate goroutine                    *)
(* The sections guarded by a.mutex are one step each; the caller stands    *)
(* at "idle" between calls, at "go" between the unlock of Start and the go *)
(* statement, at "send" in the send on stopCh and at "sent" after it; the  *)
(* goroutine stands at "select", at "ticked" once the ticker case was      *)
(* taken, and at "exited" after its return                                 *)
(***************************************************************************)
Frames == 8

Messages == {"Testing sparkle...", "Sparkle timing test completed"}

NewAnimatedStatus(message) ==
    [constructed |-> TRUE, message |-> message, active |-> FALSE, frameIndex |-> 0,
     showSparkle |-> FALSE, caller |-> "idle", animate |-> "none"]

NotAnimating ==
    UNCHANGED <<fs, agentVars, spc, originalReadmeContent, nextPrompt, readmeUpdated, exitVia,
                sessionErr, startReadme, firstResult, fnCall, fnRet, printed, cancelled>>

InitAnimation ==
    /\ \E message \in Messages : anim = NewAnimatedStatus(message)
    /\ fs = BaseFs
    /\ tools = PackageTools
    /\ provider = Provider("Amazon Bedrock", FALSE, NoResponse)
    /\ InitAgentCommon
    /\ spc = "none"
    /\ originalReadmeContent = NoOriginal
    /\ nextPrompt = NoText
    /\ readmeUpdated = FALSE
    /\ exitVia = "none"
    /\ sessionErr = NoText
    /\ startReadme = Absent
    /\ firstResult = NoResult
    /\ fnCall = NoCall
    /\ fnRet = NoRet
    /\ printed = {}
    /\ cancelled = FALSE

\* Start up to the unlock: nothing when the animation is active already
Start ==
    /\ anim.caller = "idle"
    /\ anim' = IF anim.active THEN anim
               ELSE [anim EXCEPT !.active = TRUE, !.caller = "go"]
    /\ NotAnimating

\* go a.animate(): the goroutine starts at its select
GoAnimate ==
    /\ anim.caller = "go"
    /\ anim' = [anim EXCEPT !.caller = "idle", !.animate = "select"]
    /\ NotAnimating

\* Stop up to the unlock: nothing when the animation is not active, else the
\* caller goes on to the send on the unbuffered stopCh
Stop ==
    /\ anim.caller = "idle"
    /\ anim' = IF ~anim.active THEN anim
               ELSE [anim EXCEPT !.active = FALSE, !.caller = "send"]
    /\ NotAnimating

\* the send on stopCh meets the receive of the select: the goroutine returns
StopReceived ==
    /\ anim.caller = "send"
    /\ anim.animate = "select"
    /\ anim' = [anim EXCEPT !.caller = "sent", !.animate = "exited"]
    /\ NotAnimating

\* Stop clears the line, shows the cursor and returns
StopReturns ==
    /\ anim.caller = "sent"
    /\ anim' = [anim EXCEPT !.caller = "idle"]
    /\ NotAnimating

Update ==
    /\ anim.caller = "idle"
    /\ \E newMessage \in Messages :
          anim' = IF anim.active
                  THEN [anim EXCEPT !.message = newMessage,
                                    !.frameIndex = (anim.frameIndex + 3) % Frames]
                  ELSE anim
    /\ NotAnimating

Flash ==
    /\ anim.caller = "idle"
    /\ anim' = IF anim.active THEN [anim EXCEPT !.frameIndex = 3] ELSE anim
    /\ NotAnimating

Sparkle ==
    /\ anim.caller = "idle"
    /\ anim' = IF anim.active THEN [anim EXCEPT !.showSparkle = TRUE] ELSE anim
    /\ NotAnimating

\* the select of animate takes the ticker case
TickerFires ==
    /\ anim.animate = "select"
    /\ anim' = [anim EXCEPT !.animate = "ticked"]
    /\ NotAnimating

\* the ticker case under the mutex: return when the animation is no longer
\* active, else print the frame, drop a sparkle that has expired and advance
TickerCase ==
    /\ anim.animate = "ticked"
    /\ IF ~anim.active
       THEN anim' = [anim EXCEPT !.animate = "exited"]
       ELSE \E expired \in BOOLEAN :
              anim' = [anim EXCEPT !.showSparkle = anim.showSparkle /\ ~expired,
                                   !.frameIndex = (anim.frameIndex + 1) % Frames,
                                   !.animate = "select"]
    /\ NotAnimating

animate == StopReceived \/ TickerFires \/ TickerCase

NextAnimation ==
    \/ Start
    \/ GoAnimate
    \/ Stop
    \/ StopReceived
    \/ StopReturns
    \/ Update
    \/ Flash
    \/ Sparkle
    \/ TickerFires
    \/ TickerCase

\* the goroutine is scheduled and its ticker fires; a caller that can go on
\* does
SpecAnimation ==
    /\ InitAnimation
    /\ [][NextAnimation]_vars
    /\ WF_vars(animate)
    /\ WF_vars(GoAnimate \/ StopReturns)

\* C40: Stop called on an active animation always returns, whatever the
\* interleaving with the ticker branch of animate: the send on stopCh is
\* received; and when Stop has returned the goroutine has exited and active
\* is false
C40_StopAlwaysReturns ==
    /\ [](anim.caller = "send" => <>(anim.caller = "sent"))
    /\ [](anim.caller = "sent" => (anim.animate = "exited" /\ ~anim.active))

====
